---------------------------- MODULE Spec2Model ----------------------------
(***************************************************************************)
(* A model of the StreamFlow workflow core:                                *)
(*   - the input combinators of streamflow/workflow/combinator.py          *)
(*     (DotProductInputCombinator, CartesianProductInputCombinator);       *)
(*   - the task runner of streamflow/workflow/task.py (BaseTask);          *)
(*   - the connector of streamflow/deployment/connector/base.py            *)
(*     (BaseConnector.run, BaseConnector.copy, BaseConnector.get_option);  *)
(*   - the utilities of streamflow/core/utils.py (NamesStack,              *)
(*     create_command, flatten_list, get_remote_to_remote_write_command);  *)
(*   - deploy and undeploy of the Helm connectors of                       *)
(*     streamflow/deployment/helm.py.                                      *)
(* Every await of the Python code is a suspension point: one action runs   *)
(* a coroutine from one suspension point to the next.                      *)
(***************************************************************************)
EXTENDS Integers, Sequences, FiniteSets, TLC

(***************************************************************************)
(* Bounds of the model.                                                    *)
(***************************************************************************)
\* the longest stream of non-terminal tokens a port delivers
MaxTokens == 2

\* the port mappings (insertion-ordered) a combinator is built over
PortOrders == { <<"A">>, <<"A", "B">>, <<"A", "B", "C">> }

\* the name of the combinator (InputCombinator.name)
CombName == "comb"

\* the most firings the combinator of a task returns before the terminal one
MaxFirings == 2

\* the input ports of a task: none, or one
InputPortChoices == { <<>>, <<"in1">> }

\* the statuses command.execute returns
CommandStatuses == { "COMPLETED" }

\* Task.output_ports keys, in order
output_ports == <<"out1", "out2">>

VARIABLES
    \* ---- combinator ----
    kind,          \* "dot" | "cart": the class of the combinator
    ports,         \* self.ports keys, in insertion order
    stream,        \* per port, what the port delivers: tokens, then one TerminationToken
    pos,           \* per port, how many tokens of the stream were handed to a read
    rd,            \* per port, the outstanding asyncio task of port.get()
    token_lists,   \* CartesianProductInputCombinator.token_lists
    terminated,    \* CartesianProductInputCombinator.terminated
    queue,         \* CartesianProductInputCombinator.queue
    mpc,           \* the _cartesian_multiplier task: none | created | waiting | returned | failed
    cpc,           \* the caller of get(): idle | dot_gather | init_gather | queue_get
    returned,      \* the firings returned by the successive get() calls, in order
    \* ---- task runner ----
    input_ports,   \* Task.input_ports keys, in order
    input_combinator, \* Task.input_combinator: "None" | "set"
    target,        \* whether Task.target is set
    condition,     \* "none" when Task.condition is None, "set" otherwise
    firings_left,  \* how many firings input_combinator.get() returns before the terminal one
    rpc,           \* Task.run: start | await_get | await_gather | done | failed | cancelled
                   \* | raised (the WorkflowExecutionException of run itself)
    jobs,          \* the job drivers spawned by run (the list jobs), in order
    out,           \* per output port, the tokens put on it, in order
    \* ---- BaseConnector.run ----
    capture_output, \* the argument capture_output of run
    timeout,       \* the argument timeout of run: "none" | "set"
    proc,          \* the process run spawns: its state, exit code and output
    run_pc,        \* run: start | await_proc | returned | raised
    run_result,    \* what run returned, or the error it raised
    \* ---- BaseConnector.copy ----
    args,          \* the arguments of copy: kind, src, dst, source_connector,
                   \* source_location, and the destinations as they were passed
    locations,     \* the list locations of the caller, which copy works on
    children,      \* the processes the copy has spawned, in spawn order
    copy_pc,       \* where the coroutine of copy is suspended, or how it ended
    singles,       \* per destination, the _copy_local_to_remote_single task
    nread,         \* how many blocks were read from the source reader
    pending,       \* the exception a finally block will re-raise: none | error | cancel
    copy_result,   \* what copy returned or raised
    local_written, \* whether anything was written to the local file-system
    \* ---- one call of a function of utils.py or of get_option ----
    call,          \* the function called and its arguments
    ret,           \* what the call returned or raised
    upc,           \* where the call is: start | probe | mkdir | returned | raised
    ran,           \* the commands the call has run on locations, in order
    \* ---- NamesStack ----
    stack,         \* NamesStack.stack: the scopes, the base scope first
    \* ---- the Helm connectors ----
    helm           \* the connector: its variant, its cached clients, its helm process

combVars == <<kind, ports, stream, pos, rd, token_lists, terminated, queue,
              mpc, cpc, returned>>

taskVars == <<input_ports, input_combinator, target, condition, firings_left, rpc,
              jobs, out>>

runVars == <<capture_output, timeout, proc, run_pc, run_result>>

copyVars == <<args, locations, children, copy_pc, singles, nread, pending,
              copy_result, local_written>>

connVars == <<runVars, copyVars>>

extVars == <<call, ret, upc, ran, stack, helm>>

vars == <<combVars, taskVars, connVars, extVars>>

(***************************************************************************)
(* Tokens.                                                                 *)
(***************************************************************************)
Token(p, i) == [kind |-> "Token", name |-> p, value |-> i]

TerminationToken(n) == [kind |-> "TerminationToken", name |-> n, value |-> 0]

\* isinstance(token, TerminationToken)
IsTermination(t) == t.kind = "TerminationToken"

\* isinstance(x, list): a Python list nested in a list is a record of kind
\* "List" holding its items in value
IsList(t) == t.kind = "List"

\* a list of tokens is terminated iff every element is a TerminationToken
check_termination(inputs) ==
    \A i \in DOMAIN inputs :
        IsTermination(inputs[i])

RECURSIVE _flatten_list(_)
_flatten_list(hierarchical_list) ==
    IF hierarchical_list = <<>> THEN hierarchical_list
    ELSE IF IsList(hierarchical_list[1])
         THEN _flatten_list(hierarchical_list[1].value)
                  \o _flatten_list(Tail(hierarchical_list))
         ELSE <<hierarchical_list[1]>> \o _flatten_list(Tail(hierarchical_list))

(***************************************************************************)
(* Ports: a port delivers its stream in FIFO order; a read past the        *)
(* TerminationToken never completes.                                       *)
(***************************************************************************)
PortSet == { ports[i] : i \in DOMAIN ports }

StreamOf(p, k) ==
    [i \in 1..(k + 1) |-> IF i <= k THEN Token(p, i) ELSE TerminationToken(p)]

NoToken == [kind |-> "None", name |-> "", value |-> 0]
NoRead == [st |-> "none", tok |-> NoToken]
PendingRead == [st |-> "pending", tok |-> NoToken]
DoneRead(t) == [st |-> "done", tok |-> t]
\* a read that ended with an exception: task.result() raises it
FailedRead == [st |-> "failed", tok |-> NoToken]

\* the results of the reads, in port order (asyncio.gather keeps the order)
Gathered == [i \in DOMAIN ports |-> rd[ports[i]].tok]

AllReadsDone == \A p \in PortSet : rd[p].st = "done"

Last(s) == s[Len(s)]

\* the caller stops calling get() once it got a terminal firing (task.py 103-104)
CallerContinues ==
    IF returned = <<>> THEN TRUE ELSE ~check_termination(Last(returned))

\* the specification of the combinators leaves the task runner out
TaskUnused ==
    /\ input_ports = <<>>
    /\ input_combinator = "None"
    /\ target = FALSE
    /\ condition = "none"
    /\ firings_left = 0
    /\ rpc = "unused"
    /\ jobs = <<>>
    /\ out = <<>>

\* ... and the connector as well
RunUnused ==
    /\ capture_output = FALSE
    /\ timeout = "none"
    /\ proc = <<>>
    /\ run_pc = "unused"
    /\ run_result = <<>>

NoResult == [kind |-> "none", msg |-> ""]

CopyUnused ==
    /\ args = <<>>
    /\ locations = <<>>
    /\ children = <<>>
    /\ copy_pc = "unused"
    /\ singles = <<>>
    /\ nread = 0
    /\ pending = "none"
    /\ copy_result = NoResult
    /\ local_written = FALSE

ConnUnused == RunUnused /\ CopyUnused

\* ... and so are the utilities, the names stack and the Helm connectors
CallUnused ==
    /\ call = <<>>
    /\ ret = <<>>
    /\ upc = "unused"
    /\ ran = <<>>

StackUnused == stack = <<>>

HelmUnused == helm = <<>>

ExtUnused == CallUnused /\ StackUnused /\ HelmUnused

InitComb ==
    /\ kind \in {"dot", "cart"}
    /\ ports \in PortOrders
    /\ \E len \in [PortSet -> 0..MaxTokens] :
           stream = [p \in PortSet |-> StreamOf(p, len[p])]
    /\ pos = [p \in PortSet |-> 0]
    /\ rd = [p \in PortSet |-> NoRead]
    /\ token_lists = <<>>
    /\ terminated = <<>>
    /\ queue = <<>>
    /\ mpc = "none"
    /\ cpc = "idle"
    /\ returned = <<>>
    /\ TaskUnused
    /\ ConnUnused
    /\ ExtUnused

\* Port.get() of an outstanding read completes with the next token of the port
PortGet(p) ==
    /\ rd[p].st = "pending"
    /\ pos[p] < Len(stream[p])
    /\ rd' = [rd EXCEPT ![p] = DoneRead(stream[p][pos[p] + 1])]
    /\ pos' = [pos EXCEPT ![p] = @ + 1]
    /\ UNCHANGED <<kind, ports, stream, token_lists, terminated, queue, mpc, cpc,
                   returned>>
    /\ UNCHANGED <<taskVars, connVars, extVars>>

(***************************************************************************)
(* DotProductInputCombinator                                               *)
(***************************************************************************)
\* get(), up to the await of the gather
DotProductGet ==
    /\ kind = "dot"
    /\ cpc = "idle"
    /\ CallerContinues
    /\ rd' = [p \in PortSet |-> PendingRead]
    /\ cpc' = "dot_gather"
    /\ UNCHANGED <<kind, ports, stream, pos, token_lists, terminated, queue, mpc,
                   returned>>
    /\ UNCHANGED <<taskVars, connVars, extVars>>

\* a get() that forgets the termination check of lines 28-29
DotProductResult_NoCheck(inputs) == _flatten_list(inputs)

\* what get() returns for the gathered inputs
DotProductResult(inputs) ==
    IF check_termination(inputs)
    THEN <<TerminationToken(CombName)>>
    ELSE _flatten_list(inputs)

\* get(), from the gather to the return
DotProductGetResume ==
    /\ cpc = "dot_gather"
    /\ AllReadsDone
    /\ returned' = Append(returned, DotProductResult(Gathered))
    /\ rd' = [p \in PortSet |-> NoRead]
    /\ cpc' = "idle"
    /\ UNCHANGED <<kind, ports, stream, pos, token_lists, terminated, queue, mpc>>
    /\ UNCHANGED <<taskVars, connVars, extVars>>

(***************************************************************************)
(* CartesianProductInputCombinator                                         *)
(***************************************************************************)
\* get(), up to its first suspension: the gather of _initialize on the first
\* call, queue.get() on an empty queue afterwards
CartesianProductGet ==
    /\ kind = "cart"
    /\ cpc = "idle"
    /\ CallerContinues
    /\ IF DOMAIN token_lists = {}
       THEN /\ token_lists' = [p \in PortSet |-> <<>>]
            /\ rd' = [p \in PortSet |-> PendingRead]
            /\ cpc' = "init_gather"
            /\ UNCHANGED <<queue, returned>>
       ELSE IF queue # <<>>
            THEN /\ returned' = Append(returned, _flatten_list(Head(queue)))
                 /\ queue' = Tail(queue)
                 /\ UNCHANGED <<token_lists, rd, cpc>>
            ELSE /\ cpc' = "queue_get"
                 /\ UNCHANGED <<token_lists, rd, queue, returned>>
    /\ UNCHANGED <<kind, ports, stream, pos, terminated, mpc>>
    /\ UNCHANGED <<taskVars, connVars, extVars>>

\* _initialize from its gather to its return, and get() from there to its next
\* suspension: the value _initialize returns is dropped by get(), which goes on
\* to queue.get()
CartesianProductInitialize ==
    /\ cpc = "init_gather"
    /\ AllReadsDone
    /\ rd' = [p \in PortSet |-> NoRead]
    /\ IF check_termination(Gathered)
       THEN /\ cpc' = IF queue = <<>> THEN "queue_get" ELSE "idle"
            /\ returned' = IF queue = <<>> THEN returned
                           ELSE Append(returned, _flatten_list(Head(queue)))
            /\ queue' = IF queue = <<>> THEN queue ELSE Tail(queue)
            /\ UNCHANGED <<token_lists, mpc>>
       ELSE LET q == Append(queue, Gathered) IN
            /\ token_lists' = [p \in PortSet |-> Append(token_lists[p], rd[p].tok)]
            /\ mpc' = "created"
            /\ returned' = Append(returned, _flatten_list(Head(q)))
            /\ queue' = Tail(q)
            /\ cpc' = "idle"
    /\ UNCHANGED <<kind, ports, stream, pos, terminated>>
    /\ UNCHANGED <<taskVars, connVars, extVars>>

\* get() resumed from queue.get()
CartesianProductGetResume ==
    /\ cpc = "queue_get"
    /\ queue # <<>>
    /\ returned' = Append(returned, _flatten_list(Head(queue)))
    /\ queue' = Tail(queue)
    /\ cpc' = "idle"
    /\ UNCHANGED <<kind, ports, stream, pos, rd, token_lists, terminated, mpc>>
    /\ UNCHANGED <<taskVars, connVars, extVars>>

\* _cartesian_multiplier up to its first asyncio.wait
CartesianMultiplierStart ==
    /\ mpc = "created"
    /\ rd' = [p \in PortSet |-> PendingRead]
    /\ mpc' = "waiting"
    /\ UNCHANGED <<kind, ports, stream, pos, token_lists, terminated, queue, cpc,
                   returned>>
    /\ UNCHANGED <<taskVars, connVars, extVars>>

\* itertools.product(*list_of_lists): the last list varies fastest
RECURSIVE product(_)
product(list_of_lists) ==
    IF list_of_lists = <<>> THEN << <<>> >>
    ELSE LET rest == product(Tail(list_of_lists))
             first == Head(list_of_lists)
             RECURSIVE row(_, _)
             row(x, j) == IF j > Len(rest) THEN <<>>
                          ELSE << <<x>> \o rest[j] >> \o row(x, j + 1)
             RECURSIVE rows(_)
             rows(i) == IF i > Len(first) THEN <<>>
                        ELSE row(first[i], 1) \o rows(i + 1)
         IN  rows(1)

\* a multiplier that puts the new element first instead of in its port's slot
cartesian_product_NewFirst(task_name, token) ==
    product(<< <<token>> >> \o
            [i \in 1..(Len(ports) - 1) |->
                LET others == SelectSeq(ports, LAMBDA q : q # task_name)
                IN  token_lists[others[i]]])

\* the combinations of the new element with the others (lines 63-69)
cartesian_product(task_name, token) ==
    product([i \in DOMAIN ports |->
                IF ports[i] = task_name THEN <<token>> ELSE token_lists[ports[i]]])

\* the body of "for task in finished" for one task; s.ret is set by the
\* return, s.raised by a task.result() that raises
MultiplierTask(s, task_name) ==
    IF s.ret \/ s.raised THEN s
    ELSE IF rd[task_name].st = "failed" THEN [s EXCEPT !.raised = TRUE]
    ELSE LET token == rd[task_name].tok IN
         IF IsTermination(token) \/ (IsList(token) /\ check_termination(token.value))
         THEN LET t == Append(s.terminated, task_name) IN
              IF Len(t) = Len(ports)
              THEN [s EXCEPT !.terminated = t,
                             !.queue = Append(@, <<TerminationToken(CombName)>>),
                             !.ret = TRUE]
              ELSE [s EXCEPT !.terminated = t]
         ELSE [s EXCEPT !.queue = @ \o cartesian_product(task_name, token),
                        !.reissued = @ \cup {task_name}]

RECURSIVE MultiplierTasks(_, _)
MultiplierTasks(s, order) ==
    IF order = <<>> THEN s
    ELSE MultiplierTasks(MultiplierTask(s, Head(order)), Tail(order))

Orders(S) ==
    { o \in [1..Cardinality(S) -> S] : \A i, j \in DOMAIN o : o[i] = o[j] => i = j }

\* _cartesian_multiplier from one asyncio.wait to the next (or to its return,
\* or to the exception that ends it): the finished tasks are a set, iterated
\* in any order
CartesianMultiplierWake ==
    /\ mpc = "waiting"
    /\ LET finished == { p \in PortSet : rd[p].st \in {"done", "failed"} } IN
       /\ finished # {}
       /\ \E order \in Orders(finished) :
            LET s == MultiplierTasks([terminated |-> terminated, queue |-> queue,
                                      reissued |-> {}, ret |-> FALSE,
                                      raised |-> FALSE], order)
            IN  /\ terminated' = s.terminated
                /\ queue' = s.queue
                /\ rd' = [p \in PortSet |->
                            IF p \in s.reissued THEN PendingRead
                            ELSE IF p \in finished THEN NoRead
                            ELSE rd[p]]
                /\ mpc' = IF s.raised THEN "failed"
                          ELSE IF s.ret THEN "returned" ELSE "waiting"
    /\ UNCHANGED <<kind, ports, stream, pos, token_lists, cpc, returned>>
    /\ UNCHANGED <<taskVars, connVars, extVars>>

NextComb ==
    \/ \E p \in PortSet : PortGet(p)
    \/ DotProductGet
    \/ DotProductGetResume
    \/ CartesianProductGet
    \/ CartesianProductInitialize
    \/ CartesianProductGetResume
    \/ CartesianMultiplierStart
    \/ CartesianMultiplierWake

SpecComb == InitComb /\ [][NextComb]_vars

(***************************************************************************)
(* The Cartesian combinator over ports whose reads may fail.               *)
(***************************************************************************)
\* Port.get() of a read issued by the multiplier ends with an exception
PortGetRaise(p) ==
    /\ mpc = "waiting"
    /\ rd[p].st = "pending"
    /\ rd' = [rd EXCEPT ![p] = FailedRead]
    /\ UNCHANGED <<kind, ports, stream, pos, token_lists, terminated, queue, mpc,
                   cpc, returned>>
    /\ UNCHANGED <<taskVars, connVars, extVars>>

InitCombFailing ==
    /\ InitComb
    /\ kind = "cart"

NextCombFailing ==
    \/ \E p \in PortSet : PortGet(p)
    \/ \E p \in PortSet : PortGetRaise(p)
    \/ CartesianProductGet
    \/ CartesianProductInitialize
    \/ CartesianProductGetResume
    \/ CartesianMultiplierStart
    \/ CartesianMultiplierWake

SpecCombFailing == InitCombFailing /\ [][NextCombFailing]_vars

(***************************************************************************)
(* BaseTask (task.py).  input_combinator.get() is the InputCombinator       *)
(* interface: it returns firings_left firings and then a terminal one.      *)
(* The deployment manager, the scheduler, remotepath.mkdir, the token       *)
(* processors and the command are external: each of their calls is awaited, *)
(* and completes or raises.                                                 *)
(***************************************************************************)
OutPortSet == { output_ports[i] : i \in DOMAIN output_ports }

\* the asyncio tasks a driver gathers: the two _init_dir tasks, one
\* update_token task per input token, one _retrieve_output task per output port
SubIds(step, inputs) ==
    CASE step = "mkdir" -> 1..2
      [] step = "update" -> 1..inputs
      [] step = "output" -> DOMAIN output_ports
      [] OTHER -> {}

\* the indices of the tasks of any one gather of a driver
SubRange == (1..2) \cup DOMAIN output_ports

NoSubs == [k \in SubRange |-> "none"]

\* the token compute_token makes of (job, result, status) for a port
OutToken(p, j, result, status) ==
    [kind |-> "Token", name |-> p, job |-> j, result |-> result, status |-> status]

\* TerminationToken(name=port.name)
OutTermination(p) ==
    [kind |-> "TerminationToken", name |-> p, job |-> 0, result |-> "", status |-> ""]

\* a directory of a job that was not set
NoDirectory == <<>>

\* tempfile.gettempdir(): the temporary directory of the process
gettempdir == "$TMPDIR"

\* utils.random_name(): a uuid4, which no other call returns; the call is
\* identified by the driver and the _init_dir task that makes it
random_name(j, k) == <<"uuid4", j, k>>

\* an _init_dir that names its directory after the driver alone
_init_dir_NamePerJob(j, k) ==
    <<IF target THEN "/tmp" ELSE gettempdir, "streamflow", random_name(j, 1)>>

\* the path _init_dir task k of driver j makes and returns (lines 35-43), as
\* the components path_processor.join joins
_init_dir(j, k) ==
    <<IF target THEN "/tmp" ELSE gettempdir, "streamflow", random_name(j, k)>>

\* asyncio.create_task(self._run_job(inputs)): a driver that has not run yet
NewJob(inputs) ==
    [st |-> "created", step |-> "begin", inputs |-> inputs, cond |-> TRUE,
     sub |-> NoSubs, log |-> <<>>, result |-> "", status |-> "",
     input_directory |-> NoDirectory, output_directory |-> NoDirectory]

\* a driver that notifies RUNNING only after the command has run
StepAfter_ExecuteFirst(step, cond) ==
    CASE step = "begin" ->
             IF cond THEN (IF target THEN "deploy" ELSE "mkdir") ELSE "output"
      [] step = "deploy" -> "schedule"
      [] step = "schedule" -> "mkdir"
      [] step = "mkdir" -> "update"
      [] step = "update" -> "execute"
      [] step = "execute" -> IF target THEN "notify_running" ELSE "output"
      [] step = "notify_running" -> "notify_status"
      [] step = "notify_status" -> "output"
      [] step = "output" -> "end"

\* a driver that stages the directories whatever the condition says
StepAfter_ConditionIgnored(step, cond) ==
    CASE step = "begin" ->
             IF cond THEN (IF target THEN "deploy" ELSE "mkdir") ELSE "mkdir"
      [] step = "deploy" -> "schedule"
      [] step = "schedule" -> "mkdir"
      [] step = "mkdir" -> IF cond THEN "update" ELSE "output"
      [] step = "update" -> IF target THEN "notify_running" ELSE "execute"
      [] step = "notify_running" -> "execute"
      [] step = "execute" -> IF target THEN "notify_status" ELSE "output"
      [] step = "notify_status" -> "output"
      [] step = "output" -> "end"

\* a driver that retrieves the outputs before it runs the command
StepAfter_OutputFirst(step, cond) ==
    CASE step = "begin" ->
             IF cond THEN (IF target THEN "deploy" ELSE "mkdir") ELSE "output"
      [] step = "deploy" -> "schedule"
      [] step = "schedule" -> "mkdir"
      [] step = "mkdir" -> "update"
      [] step = "update" -> "output"
      [] step = "output" ->
             IF cond THEN (IF target THEN "notify_running" ELSE "execute") ELSE "end"
      [] step = "notify_running" -> "execute"
      [] step = "execute" -> IF target THEN "notify_status" ELSE "end"
      [] step = "notify_status" -> "end"

\* the step _run_job awaits after `step` has completed (lines 53-85)
StepAfter(step, cond) ==
    CASE step = "begin" ->
             IF cond THEN (IF target THEN "deploy" ELSE "mkdir") ELSE "output"
      [] step = "deploy" -> "schedule"
      [] step = "schedule" -> "mkdir"
      [] step = "mkdir" -> "update"
      [] step = "update" -> IF target THEN "notify_running" ELSE "execute"
      [] step = "notify_running" -> "execute"
      [] step = "execute" -> IF target THEN "notify_status" ELSE "output"
      [] step = "notify_status" -> "output"
      [] step = "output" -> "end"

\* the driver calls `step` and suspends on it
Invoke(d, step) ==
    [d EXCEPT !.step = step,
              !.log = Append(@, <<step, "call">>),
              !.sub = [k \in SubRange |->
                          IF k \in SubIds(step, d.inputs) THEN "pending" ELSE "none"]]

\* the driver goes on after `d.step` has completed, up to its next suspension;
\* a gather of no task (the update of no input token) does not suspend
Proceed(d) ==
    LET done == [d EXCEPT !.log = Append(@, <<d.step, "done">>), !.sub = NoSubs]
        next == StepAfter(d.step, d.cond)
    IN  IF next = "end"
        THEN [done EXCEPT !.st = "done", !.step = "end"]
        ELSE IF SubIds(next, d.inputs) = {} /\ next \in {"mkdir", "update", "output"}
        THEN LET skipped == [done EXCEPT !.step = next,
                                         !.log = @ \o << <<next, "call">>, <<next, "done">> >>]
             IN  Invoke(skipped, StepAfter(next, d.cond))
        ELSE Invoke(done, next)

GatherSteps == {"mkdir", "update", "output"}
CallSteps == {"deploy", "schedule", "notify_running", "execute", "notify_status"}

InitTask ==
    /\ input_ports \in InputPortChoices
    /\ input_combinator \in IF input_ports = <<>> THEN {"None"} ELSE {"None", "set"}
    /\ target \in BOOLEAN
    /\ condition \in {"none", "set"}
    /\ firings_left \in IF input_ports = <<>> \/ input_combinator = "None"
                       THEN {0} ELSE 0..MaxFirings
    /\ rpc = "start"
    /\ jobs = <<>>
    /\ out = [p \in OutPortSet |-> <<>>]
    /\ kind = "unused"
    /\ ports = <<>>
    /\ stream = <<>>
    /\ pos = <<>>
    /\ rd = <<>>
    /\ token_lists = <<>>
    /\ terminated = <<>>
    /\ queue = <<>>
    /\ mpc = "none"
    /\ cpc = "unused"
    /\ returned = <<>>
    /\ ConnUnused
    /\ ExtUnused

\* lines 116-118
PutTermination(o) == [p \in OutPortSet |-> Append(o[p], OutTermination(p))]

\* a run() that does not look for the input combinator
RunStart_NoCombinatorCheck ==
    /\ rpc = "start"
    /\ IF input_ports # <<>>
       THEN /\ rpc' = "await_get"
            /\ UNCHANGED jobs
       ELSE /\ jobs' = Append(jobs, NewJob(0))
            /\ rpc' = "await_gather"
    /\ UNCHANGED <<input_ports, input_combinator, target, condition, firings_left, out>>
    /\ UNCHANGED <<combVars, connVars, extVars>>

\* run(), to its first suspension (lines 94-101, 110-115)
RunStart ==
    /\ rpc = "start"
    /\ IF input_ports # <<>>
       THEN /\ rpc' = IF input_combinator = "None" THEN "raised" ELSE "await_get"
            /\ UNCHANGED jobs
       ELSE /\ jobs' = Append(jobs, NewJob(0))
            /\ rpc' = "await_gather"
    /\ UNCHANGED <<input_ports, input_combinator, target, condition, firings_left, out>>
    /\ UNCHANGED <<combVars, connVars, extVars>>

\* a run() that starts a driver for the terminal firing too
RunGetReturn_DriverForTerminal ==
    /\ rpc = "await_get"
    /\ IF firings_left > 0
       THEN /\ jobs' = Append(jobs, NewJob(Len(input_ports)))
            /\ firings_left' = firings_left - 1
            /\ UNCHANGED <<rpc, out>>
       ELSE /\ jobs' = Append(jobs, NewJob(Len(input_ports)))
            /\ rpc' = "await_gather"
            /\ UNCHANGED <<firings_left, out>>
    /\ UNCHANGED <<input_ports, input_combinator, target, condition>>
    /\ UNCHANGED <<combVars, connVars, extVars>>

\* run() resumed with a firing from input_combinator.get() (lines 101-108, 115-118)
RunGetReturn ==
    /\ rpc = "await_get"
    /\ IF firings_left > 0
       THEN /\ jobs' = Append(jobs, NewJob(Len(input_ports)))
            /\ firings_left' = firings_left - 1
            /\ UNCHANGED <<rpc, out>>
       ELSE /\ IF jobs = <<>>
               THEN /\ out' = PutTermination(out)
                    /\ rpc' = "done"
               ELSE /\ rpc' = "await_gather"
                    /\ UNCHANGED out
            /\ UNCHANGED <<jobs, firings_left>>
    /\ UNCHANGED <<input_ports, input_combinator, target, condition>>
    /\ UNCHANGED <<combVars, connVars, extVars>>

\* a run() that goes on as soon as one driver has completed
GatherReturns_FirstCompleted == \E j \in DOMAIN jobs : jobs[j].st = "done"

\* a run() whose gather collects the errors of the drivers instead of raising
GatherReturns_ErrorsCollected ==
    \A j \in DOMAIN jobs : jobs[j].st \in {"done", "failed"}

\* asyncio.gather(*jobs) returns: every driver has completed (line 115)
GatherReturns == \A j \in DOMAIN jobs : jobs[j].st = "done"

\* run() resumed from the gather of the drivers, all completed (lines 115-119)
RunGatherReturn ==
    /\ rpc = "await_gather"
    /\ GatherReturns
    /\ out' = PutTermination(out)
    /\ rpc' = "done"
    /\ UNCHANGED <<input_ports, input_combinator, target, condition, firings_left, jobs>>
    /\ UNCHANGED <<combVars, connVars, extVars>>

\* the gather of the drivers raises the error of a driver (line 115)
RunGatherRaise ==
    /\ rpc = "await_gather"
    /\ \E j \in DOMAIN jobs : jobs[j].st = "failed"
    /\ rpc' = "failed"
    /\ UNCHANGED <<input_ports, input_combinator, target, condition, firings_left, jobs, out>>
    /\ UNCHANGED <<combVars, connVars, extVars>>

\* a driver and the tasks it gathers are cancelled
Cancelled(d) ==
    IF d.st \in {"created", "running"}
    THEN [d EXCEPT !.st = "cancelled",
                   !.sub = [k \in SubRange |->
                               IF d.sub[k] = "pending" THEN "cancelled" ELSE d.sub[k]]]
    ELSE d

\* the drivers after run() was cancelled: awaiting get() (line 101) the
\* drivers are not awaited by run(), and go on; cancelling the gather
\* (line 115) cancels its children, unless the gather has already ended with
\* the error of a driver
CancelJobs(at) ==
    IF at = "await_gather" /\ \A j \in DOMAIN jobs : jobs[j].st # "failed"
    THEN [j \in DOMAIN jobs |-> Cancelled(jobs[j])]
    ELSE jobs

\* the task of run() is cancelled at one of its suspension points
CancelRun ==
    /\ rpc \in {"await_get", "await_gather"}
    /\ jobs' = CancelJobs(rpc)
    /\ rpc' = "cancelled"
    /\ UNCHANGED <<input_ports, input_combinator, target, condition, firings_left, out>>
    /\ UNCHANGED <<combVars, connVars, extVars>>

\* _run_job from its start to its first suspension (lines 47-61, 78-85)
JobStart(j) ==
    /\ jobs[j].st = "created"
    /\ \E c \in IF condition = "none" THEN {TRUE} ELSE BOOLEAN :
         LET d == [jobs[j] EXCEPT !.st = "running", !.cond = c,
                                  !.result = IF c THEN "" ELSE "null",
                                  !.status = IF c THEN "" ELSE "SKIPPED"]
         IN  jobs' = [jobs EXCEPT ![j] = Invoke(d, StepAfter("begin", c))]
    /\ UNCHANGED <<input_ports, input_combinator, target, condition, firings_left, rpc, out>>
    /\ UNCHANGED <<combVars, connVars, extVars>>

\* _run_job resumed from the await of a call that completed (lines 56-76)
JobResume(j) ==
    /\ jobs[j].st = "running"
    /\ jobs[j].step \in CallSteps
    /\ \E status \in CommandStatuses :
         LET d == IF jobs[j].step = "execute"
                  THEN [jobs[j] EXCEPT !.result = "result", !.status = status]
                  ELSE jobs[j]
         IN  jobs' = [jobs EXCEPT ![j] = Proceed(d)]
    /\ UNCHANGED <<input_ports, input_combinator, target, condition, firings_left, rpc, out>>
    /\ UNCHANGED <<combVars, connVars, extVars>>

\* a driver ended by an error: _run_job catches nothing, and its frame is gone.
\* Of the tasks it gathered, the _retrieve_output tasks still running are
\* kept, with the result and status they were created with: they put tokens.
\* (The _init_dir and update_token tasks of a failed gather run on as well;
\* their completion changes no state of the task.)
Raised(d) ==
    IF d.step = "output"
    THEN [d EXCEPT !.st = "failed", !.log = <<>>]
    ELSE [NewJob(d.inputs) EXCEPT !.st = "failed", !.step = "raised", !.cond = d.cond]

\* the call _run_job awaits raises
JobRaise(j) ==
    /\ jobs[j].st = "running"
    /\ jobs[j].step \in CallSteps
    /\ jobs' = [jobs EXCEPT ![j] = Raised(jobs[j])]
    /\ UNCHANGED <<input_ports, input_combinator, target, condition, firings_left, rpc, out>>
    /\ UNCHANGED <<combVars, connVars, extVars>>

\* _run_job resumed from a gather whose tasks all completed (lines 61, 69, 85);
\* after the gather of the _init_dir tasks their results are stored in the job
\* (lines 62-63)
JobGatherResume(j) ==
    /\ jobs[j].st = "running"
    /\ jobs[j].step \in GatherSteps
    /\ \A k \in SubIds(jobs[j].step, jobs[j].inputs) : jobs[j].sub[k] = "done"
    /\ LET d == IF jobs[j].step = "mkdir"
                THEN [jobs[j] EXCEPT !.input_directory = _init_dir(j, 1),
                                     !.output_directory = _init_dir(j, 2)]
                ELSE jobs[j]
       IN  jobs' = [jobs EXCEPT ![j] = Proceed(d)]
    /\ UNCHANGED <<input_ports, input_combinator, target, condition, firings_left, rpc, out>>
    /\ UNCHANGED <<combVars, connVars, extVars>>

\* a gather of _run_job raises the error of one of its tasks; the other tasks
\* of the gather go on
JobGatherRaise(j) ==
    /\ jobs[j].st = "running"
    /\ jobs[j].step \in GatherSteps
    /\ \E k \in SubIds(jobs[j].step, jobs[j].inputs) : jobs[j].sub[k] = "failed"
    /\ jobs' = [jobs EXCEPT ![j] = Raised(jobs[j])]
    /\ UNCHANGED <<input_ports, input_combinator, target, condition, firings_left, rpc, out>>
    /\ UNCHANGED <<combVars, connVars, extVars>>

\* a gathered task completes: _init_dir (lines 41-43), update_token (line 68),
\* _retrieve_output (lines 28-29), which puts its token on the port
SubtaskDone(j, k) ==
    /\ jobs[j].sub[k] = "pending"
    /\ jobs' = [jobs EXCEPT ![j].sub[k] = "done"]
    /\ out' = IF jobs[j].step = "output"
              THEN [out EXCEPT ![output_ports[k]] =
                       Append(@, OutToken(output_ports[k], j, jobs[j].result,
                                          jobs[j].status))]
              ELSE out
    /\ UNCHANGED <<input_ports, input_combinator, target, condition, firings_left, rpc>>
    /\ UNCHANGED <<combVars, connVars, extVars>>

\* the call a gathered task awaits (mkdir, update_token, compute_token) raises
SubtaskRaise(j, k) ==
    /\ jobs[j].sub[k] = "pending"
    /\ jobs' = [jobs EXCEPT ![j].sub[k] = "failed"]
    /\ UNCHANGED <<input_ports, input_combinator, target, condition, firings_left, rpc, out>>
    /\ UNCHANGED <<combVars, connVars, extVars>>

NextTask ==
    \/ RunStart
    \/ RunGetReturn
    \/ RunGatherReturn
    \/ RunGatherRaise
    \/ CancelRun
    \/ \E j \in DOMAIN jobs : JobStart(j)
    \/ \E j \in DOMAIN jobs : JobResume(j)
    \/ \E j \in DOMAIN jobs : JobRaise(j)
    \/ \E j \in DOMAIN jobs : JobGatherResume(j)
    \/ \E j \in DOMAIN jobs : JobGatherRaise(j)
    \/ \E j \in DOMAIN jobs : \E k \in SubRange : SubtaskDone(j, k)
    \/ \E j \in DOMAIN jobs : \E k \in SubRange : SubtaskRaise(j, k)

SpecTask == InitTask /\ [][NextTask]_vars

(***************************************************************************)
(* BaseConnector.run (base.py): one call of run on one location.           *)
(***************************************************************************)
\* the longest output the process writes, in bytes
MaxStdout == 2

\* the largest exit code of the process
MaxReturnCode == 2

\* the bytes the process writes: a blank and a letter
Blank == 32
Letter == 97
OutputBytes == {Blank, Letter}

Outputs == UNION { [1..n -> OutputBytes] : n \in 0..MaxStdout }

\* bytes.decode() of ASCII bytes
decode(bytes) == [i \in DOMAIN bytes |-> IF bytes[i] = Blank THEN " " ELSE "a"]

IsSpace(c) == c \in {" ", "\n", "\t"}

RECURSIVE lstrip(_)
lstrip(str) ==
    IF str = <<>> THEN str
    ELSE IF IsSpace(Head(str)) THEN lstrip(Tail(str)) ELSE str

RECURSIVE rstrip(_)
rstrip(str) ==
    IF str = <<>> THEN str
    ELSE IF IsSpace(Last(str)) THEN rstrip(SubSeq(str, 1, Len(str) - 1)) ELSE str

\* str.strip()
strip(str) == rstrip(lstrip(str))

\* Python's None as a result
None == <<>>

NoProc == [st |-> "none", returncode |-> 0, stdout |-> <<>>]

RunUsed ==
    /\ capture_output \in BOOLEAN
    /\ timeout \in {"none", "set"}
    /\ proc = NoProc
    /\ run_pc = "start"
    /\ run_result = None

InitRun ==
    /\ RunUsed
    /\ CopyUnused
    /\ ExtUnused
    /\ TaskUnused
    /\ kind = "unused"
    /\ ports = <<>>
    /\ stream = <<>>
    /\ pos = <<>>
    /\ rd = <<>>
    /\ token_lists = <<>>
    /\ terminated = <<>>
    /\ queue = <<>>
    /\ mpc = "none"
    /\ cpc = "unused"
    /\ returned = <<>>

\* run, up to the await of wait_for: the command is built and the process spawned
ConnectorRunSpawn ==
    /\ run_pc = "start"
    /\ proc' = [st |-> "running", returncode |-> 0, stdout |-> <<>>]
    /\ run_pc' = "await_proc"
    /\ UNCHANGED <<capture_output, timeout, run_result>>
    /\ UNCHANGED <<combVars, taskVars, copyVars, extVars>>

\* the process exits with some exit code; what it wrote is read only when its
\* stdout is a pipe
ProcExit ==
    /\ proc.st = "running"
    /\ \E rc \in 0..MaxReturnCode :
       \E o \in IF capture_output THEN Outputs ELSE {<<>>} :
           proc' = [st |-> "exited", returncode |-> rc, stdout |-> o]
    /\ UNCHANGED <<capture_output, timeout, run_pc, run_result>>
    /\ UNCHANGED <<combVars, taskVars, copyVars, extVars>>

\* a run that checks the exit code of the process
run_return_CheckedExit(capture, stdout, returncode) ==
    IF returncode # 0 THEN <<"CalledProcessError">>
    ELSE IF capture
         THEN <<strip(decode(stdout)), returncode>>
         ELSE None

\* what run returns once the process has exited (lines 387-392)
run_return(capture, stdout, returncode) ==
    IF capture
    THEN <<strip(decode(stdout)), returncode>>
    ELSE None

\* run, from wait_for to its return
ConnectorRunReturn ==
    /\ run_pc = "await_proc"
    /\ proc.st = "exited"
    /\ run_result' = run_return(capture_output, proc.stdout, proc.returncode)
    /\ run_pc' = "returned"
    /\ UNCHANGED <<capture_output, timeout, proc>>
    /\ UNCHANGED <<combVars, taskVars, copyVars, extVars>>

\* the timeout of wait_for expires: the awaited communicate()/wait() is
\* cancelled and TimeoutError raised; nothing is done to the process
ConnectorRunTimeout ==
    /\ run_pc = "await_proc"
    /\ timeout = "set"
    /\ proc.st = "running"
    /\ run_result' = <<"TimeoutError">>
    /\ run_pc' = "raised"
    /\ UNCHANGED <<capture_output, timeout, proc>>
    /\ UNCHANGED <<combVars, taskVars, copyVars, extVars>>

NextRun ==
    \/ ConnectorRunSpawn
    \/ ProcExit
    \/ ConnectorRunReturn
    \/ ConnectorRunTimeout

SpecRun == InitRun /\ [][NextRun]_vars

(***************************************************************************)
(* BaseConnector.copy (base.py): one call of copy.  The source reader of a *)
(* REMOTE_TO_REMOTE copy delivers blocks 1, 2, ... and then the empty read *)
(* that ends the stream.                                                   *)
(***************************************************************************)
\* the most destination locations of a copy
MaxLocations == 2

\* the most blocks the source reader delivers
MaxBlocks == 2

\* source_location = None
NoLocation == 0

Locations == 1..MaxLocations

\* the lists of destinations: non-empty, without repetition
LocationLists ==
    UNION { { l \in [1..n -> Locations] : \A i, j \in 1..n : l[i] = l[j] => i = j } :
            n \in 1..MaxLocations }

\* list membership and list.remove(x): the first occurrence goes
Contains(list, x) == \E i \in DOMAIN list : list[i] = x

remove_Nothing(list, x) == list

remove(list, x) ==
    LET first == CHOOSE i \in DOMAIN list :
                     list[i] = x /\ \A j \in 1..(i - 1) : list[j] # x
    IN  [k \in 1..(Len(list) - 1) |-> IF k < first THEN list[k] ELSE list[k + 1]]

\* the results of copy
Returned == [kind |-> "returned", msg |-> ""]
\* CancelledError, with the suspension point the cancellation was delivered at
CancelledAt(point) == [kind |-> "CancelledError", msg |-> point]
Raise(error, msg) == [kind |-> error, msg |-> msg]

MandatorySource == "Source location is mandatory for remote to remote copy"
MultipleLocations == "Copy from multiple locations is not supported"

\* a copy that does not look at the number of locations of a REMOTE_TO_LOCAL
copy_check_AnyTopology(copy_kind, locs, source_location) ==
    IF copy_kind = "REMOTE_TO_REMOTE" /\ source_location = NoLocation
    THEN Raise("Exception", MandatorySource)
    ELSE NoResult

\* the checks copy makes before it dispatches on kind (lines 281-285, 338-340)
copy_check(copy_kind, locs, source_location) ==
    IF copy_kind = "REMOTE_TO_REMOTE" /\ source_location = NoLocation
    THEN Raise("Exception", MandatorySource)
    ELSE IF copy_kind = "REMOTE_TO_LOCAL" /\ Len(locs) > 1
    THEN Raise("Exception", MultipleLocations)
    ELSE NoResult

\* a spawned process
Child(role, location, command, stdin) ==
    [role |-> role, location |-> location, command |-> command, st |-> "running",
     stdin |-> stdin, awaited |-> FALSE, recv |-> <<>>, drained |-> 0]

ChildrenOf(role) == { i \in DOMAIN children : children[i].role = role }

WriterAt(location) ==
    { i \in ChildrenOf("writer") : children[i].location = location }

CopyUsed ==
    /\ \E k \in {"LOCAL_TO_REMOTE", "REMOTE_TO_LOCAL", "REMOTE_TO_REMOTE"} :
       \E l \in LocationLists :
       \E c \in IF k = "REMOTE_TO_REMOTE" THEN {"self", "other"} ELSE {"self"} :
       \E sl \in IF k = "REMOTE_TO_REMOTE" THEN Locations \cup {NoLocation}
                 ELSE {NoLocation} :
       \E d \in IF k = "REMOTE_TO_REMOTE" THEN {"/a", "/b"} ELSE {"/b"} :
           /\ args = [kind |-> k, src |-> "/a", dst |-> d, source_connector |-> c,
                      source_location |-> sl, locations |-> l]
           /\ locations = l
    /\ children = <<>>
    /\ copy_pc = "start"
    /\ singles = <<>>
    /\ nread = 0
    /\ pending = "none"
    /\ copy_result = NoResult
    /\ local_written = FALSE

InitCopy ==
    /\ CopyUsed
    /\ RunUnused
    /\ ExtUnused
    /\ TaskUnused
    /\ kind = "unused"
    /\ ports = <<>>
    /\ stream = <<>>
    /\ pos = <<>>
    /\ rd = <<>>
    /\ token_lists = <<>>
    /\ terminated = <<>>
    /\ queue = <<>>
    /\ mpc = "none"
    /\ cpc = "unused"
    /\ returned = <<>>

\* _copy_remote_to_remote takes the local cp: the source is on this connector,
\* among the destinations, and src differs from dst (lines 184-185)
TakesLocalCopy ==
    /\ args.source_connector = "self"
    /\ Contains(locations, args.source_location)
    /\ args.src # args.dst

\* copy, up to its first suspension point
CopyStart ==
    /\ copy_pc = "start"
    /\ LET check == copy_check(args.kind, locations, args.source_location) IN
       IF check # NoResult
       THEN /\ copy_result' = check
            /\ copy_pc' = "raised"
            /\ UNCHANGED <<children, singles>>
       ELSE IF args.kind = "REMOTE_TO_REMOTE"
       THEN /\ IF TakesLocalCopy
               THEN /\ children' = Append(children,
                           Child("run", args.source_location,
                                 <<"/bin/cp", "-rf", args.src, args.dst>>, "none"))
                    /\ copy_pc' = "await_cp"
               ELSE /\ children' = children
                    /\ copy_pc' = "write_command"
            /\ UNCHANGED <<copy_result, singles>>
       ELSE IF args.kind = "LOCAL_TO_REMOTE"
       THEN /\ singles' = [i \in DOMAIN locations |-> "spawn"]
            /\ copy_pc' = "gather_singles"
            /\ UNCHANGED <<copy_result, children>>
       ELSE /\ copy_pc' = "r2l_spawn"
            /\ UNCHANGED <<copy_result, children, singles>>
    /\ UNCHANGED <<args, locations, nread, pending, local_written>>
    /\ UNCHANGED <<combVars, taskVars, runVars, extVars>>

\* a process exits: one that reads its stdin once the stdin is closed, one
\* that does not at any time
ChildExit(i) ==
    /\ children[i].st = "running"
    /\ children[i].stdin # "open"
    /\ children' = [children EXCEPT ![i].st = "exited"]
    /\ UNCHANGED <<args, locations, copy_pc, singles, nread, pending, copy_result,
                   local_written>>
    /\ UNCHANGED <<combVars, taskVars, runVars, extVars>>

(***************************************************************************)
(* _copy_remote_to_remote                                                  *)
(***************************************************************************)
\* run of the cp returned: the source leaves the destinations (line 188);
\* without destinations left the copy is over (line 189)
R2RCpResume ==
    /\ copy_pc = "await_cp"
    /\ \E i \in ChildrenOf("run") :
           /\ children[i].st = "exited"
           /\ children' = [children EXCEPT ![i].awaited = TRUE]
    /\ locations' = remove(locations, args.source_location)
    /\ IF locations' = <<>>
       THEN copy_pc' = "returned" /\ copy_result' = Returned
       ELSE copy_pc' = "write_command" /\ copy_result' = copy_result
    /\ UNCHANGED <<args, singles, nread, pending, local_written>>
    /\ UNCHANGED <<combVars, taskVars, runVars, extVars>>

\* get_remote_to_remote_write_command returned and the source reader is open:
\* one create_subprocess_exec task per destination is created and gathered
R2RWriteCommand ==
    /\ copy_pc = "write_command"
    /\ copy_pc' = "spawn_writers"
    /\ UNCHANGED <<args, locations, children, singles, nread, pending, copy_result,
                   local_written>>
    /\ UNCHANGED <<combVars, taskVars, runVars, extVars>>

\* get_remote_to_remote_write_command raised (utils.py 156-157)
R2RWriteCommandRaise ==
    /\ copy_pc = "write_command"
    /\ copy_pc' = "raised"
    /\ copy_result' = Raise("WorkflowExecutionException", "test -d")
    /\ UNCHANGED <<args, locations, children, singles, nread, pending,
                   local_written>>
    /\ UNCHANGED <<combVars, taskVars, runVars, extVars>>

\* one create_subprocess_exec of the gather completes
R2RWriterSpawn(location) ==
    /\ copy_pc = "spawn_writers"
    /\ Contains(locations, location)
    /\ WriterAt(location) = {}
    /\ children' = Append(children,
                          Child("writer", location, <<"write_command">>, "open"))
    /\ UNCHANGED <<args, locations, copy_pc, singles, nread, pending, copy_result,
                   local_written>>
    /\ UNCHANGED <<combVars, taskVars, runVars, extVars>>

\* the list writers: the writer of each destination, in the order of locations
writers == [i \in DOMAIN locations |-> CHOOSE w \in WriterAt(locations[i]) : TRUE]

WriterSet == { writers[i] : i \in DOMAIN writers }

\* the gather of the spawns returned: the loop starts with a read
R2RSpawnResume ==
    /\ copy_pc = "spawn_writers"
    /\ \A i \in DOMAIN locations : WriterAt(locations[i]) # {}
    /\ copy_pc' = "read"
    /\ UNCHANGED <<args, locations, children, singles, nread, pending, copy_result,
                   local_written>>
    /\ UNCHANGED <<combVars, taskVars, runVars, extVars>>

\* the finally block up to its gather: the stdin of every writer is closed
CloseWriters(ch) ==
    [i \in DOMAIN ch |-> IF i \in WriterSet THEN [ch[i] EXCEPT !.stdin = "closed"]
                         ELSE ch[i]]

\* a loop body that writes the block to the first writer only
write_FirstOnly(ch, content) ==
    [i \in DOMAIN ch |-> IF i = writers[1] THEN [ch[i] EXCEPT !.recv = Append(@, content)]
                         ELSE ch[i]]

\* for writer in writers: writer.stdin.write(content) (lines 228-229)
write(ch, content) ==
    [i \in DOMAIN ch |-> IF i \in WriterSet THEN [ch[i] EXCEPT !.recv = Append(@, content)]
                         ELSE ch[i]]

\* reader.read returned a block: it is written to every writer and the drains
\* are gathered
R2RRead ==
    /\ copy_pc = "read"
    /\ nread < MaxBlocks
    /\ nread' = nread + 1
    /\ children' = write(children, nread + 1)
    /\ copy_pc' = "drain"
    /\ UNCHANGED <<args, locations, singles, pending, copy_result, local_written>>
    /\ UNCHANGED <<combVars, taskVars, runVars, extVars>>

\* reader.read returned nothing: the loop ends and the finally block runs
R2REndOfStream ==
    /\ copy_pc = "read"
    /\ children' = CloseWriters(children)
    /\ copy_pc' = "wait"
    /\ UNCHANGED <<args, locations, singles, nread, pending, copy_result,
                   local_written>>
    /\ UNCHANGED <<combVars, taskVars, runVars, extVars>>

\* reader.read raised: the finally block runs with the error pending
R2RReadRaise ==
    /\ copy_pc = "read"
    /\ children' = CloseWriters(children)
    /\ pending' = "error"
    /\ copy_pc' = "wait"
    /\ UNCHANGED <<args, locations, singles, nread, copy_result, local_written>>
    /\ UNCHANGED <<combVars, taskVars, runVars, extVars>>

\* writer.stdin.drain() of one writer completes
R2RDrain(w) ==
    /\ copy_pc = "drain"
    /\ w \in WriterSet
    /\ children[w].drained < Len(children[w].recv)
    /\ children' = [children EXCEPT ![w].drained = Len(children[w].recv)]
    /\ UNCHANGED <<args, locations, copy_pc, singles, nread, pending, copy_result,
                   local_written>>
    /\ UNCHANGED <<combVars, taskVars, runVars, extVars>>

\* the drain of one writer raises, its process being gone: the gather raises
\* at once and the finally block runs with the error pending
R2RDrainRaise(w) ==
    /\ copy_pc = "drain"
    /\ w \in WriterSet
    /\ children[w].drained < Len(children[w].recv)
    /\ children' = CloseWriters([children EXCEPT ![w].st = "exited"])
    /\ pending' = "error"
    /\ copy_pc' = "wait"
    /\ UNCHANGED <<args, locations, singles, nread, copy_result, local_written>>
    /\ UNCHANGED <<combVars, taskVars, runVars, extVars>>

\* the gather of the drains returned: the next read
R2RDrainResume ==
    /\ copy_pc = "drain"
    /\ \A w \in WriterSet : children[w].drained = Len(children[w].recv)
    /\ copy_pc' = "read"
    /\ UNCHANGED <<args, locations, children, singles, nread, pending, copy_result,
                   local_written>>
    /\ UNCHANGED <<combVars, taskVars, runVars, extVars>>

\* the gather of the writer.wait() returned: the finally block is over and
\* the function returns, or re-raises what was pending
R2RWaitResume ==
    /\ copy_pc = "wait"
    /\ \A w \in WriterSet : children[w].st = "exited"
    /\ children' = [i \in DOMAIN children |->
                       IF i \in WriterSet THEN [children[i] EXCEPT !.awaited = TRUE]
                       ELSE children[i]]
    /\ copy_pc' = IF pending = "none" THEN "returned"
                  ELSE IF pending = "error" THEN "raised" ELSE "cancelled"
    /\ copy_result' = IF pending = "none" THEN Returned
                      ELSE IF pending = "error" THEN Raise("StreamError", "")
                      ELSE CancelledAt(pending)
    /\ pending' = "none"
    /\ UNCHANGED <<args, locations, singles, nread, local_written>>
    /\ UNCHANGED <<combVars, taskVars, runVars, extVars>>

\* the copy is cancelled at a suspension point of _copy_remote_to_remote:
\* inside the try block the finally block runs with the cancellation pending,
\* anywhere else the cancellation leaves the function at once
R2RCancel ==
    /\ copy_pc \in {"await_cp", "write_command", "spawn_writers", "read", "drain",
                    "wait"}
    /\ pending \in {"none", "error"}
    /\ IF copy_pc \in {"read", "drain"}
       THEN /\ children' = CloseWriters(children)
            /\ pending' = copy_pc
            /\ copy_pc' = "wait"
            /\ UNCHANGED copy_result
       ELSE /\ copy_result' = CancelledAt(copy_pc)
            /\ copy_pc' = "cancelled"
            /\ pending' = "none"
            /\ UNCHANGED children
    /\ UNCHANGED <<args, locations, singles, nread, local_written>>
    /\ UNCHANGED <<combVars, taskVars, runVars, extVars>>

(***************************************************************************)
(* _copy_local_to_remote: one _copy_local_to_remote_single task per        *)
(* destination, gathered.  Task i works on locations[i].                   *)
(***************************************************************************)
SingleChild(i) ==
    CHOOSE c \in ChildrenOf("single") : children[c].location = locations[i]

\* create_subprocess_exec returned (lines 119-128): the tar stream is opened
\* and tar.add awaited
L2RSingleSpawn(i) ==
    /\ i \in DOMAIN singles
    /\ singles[i] = "spawn"
    /\ children' = Append(children,
                          Child("single", locations[i],
                                <<"tar", "xf", "-", "-C", "/">>, "open"))
    /\ singles' = [singles EXCEPT ![i] = "tar"]
    /\ UNCHANGED <<args, locations, copy_pc, nread, pending, copy_result,
                   local_written>>
    /\ UNCHANGED <<combVars, taskVars, runVars, extVars>>

\* tar.add returned and the stream was closed: the finally block closes the
\* stdin of the process and awaits the process
L2RSingleTar(i) ==
    /\ i \in DOMAIN singles
    /\ singles[i] = "tar"
    /\ children' = [children EXCEPT ![SingleChild(i)].stdin = "closed"]
    /\ singles' = [singles EXCEPT ![i] = "wait"]
    /\ UNCHANGED <<args, locations, copy_pc, nread, pending, copy_result,
                   local_written>>
    /\ UNCHANGED <<combVars, taskVars, runVars, extVars>>

\* tar.add raised TarError: the same finally block, with the
\* WorkflowExecutionException pending
L2RSingleTarRaise(i) ==
    /\ i \in DOMAIN singles
    /\ singles[i] = "tar"
    /\ children' = [children EXCEPT ![SingleChild(i)].stdin = "closed"]
    /\ singles' = [singles EXCEPT ![i] = "wait_raise"]
    /\ UNCHANGED <<args, locations, copy_pc, nread, pending, copy_result,
                   local_written>>
    /\ UNCHANGED <<combVars, taskVars, runVars, extVars>>

\* proc.wait() returned: the task is over
L2RSingleWait(i) ==
    /\ i \in DOMAIN singles
    /\ singles[i] \in {"wait", "wait_raise"}
    /\ children[SingleChild(i)].st = "exited"
    /\ children' = [children EXCEPT ![SingleChild(i)].awaited = TRUE]
    /\ singles' = [singles EXCEPT ![i] = IF @ = "wait" THEN "done" ELSE "failed"]
    /\ UNCHANGED <<args, locations, copy_pc, nread, pending, copy_result,
                   local_written>>
    /\ UNCHANGED <<combVars, taskVars, runVars, extVars>>

\* the gather returns once every task has returned
L2RGatherReturn ==
    /\ copy_pc = "gather_singles"
    /\ \A i \in DOMAIN singles : singles[i] = "done"
    /\ copy_pc' = "returned"
    /\ copy_result' = Returned
    /\ UNCHANGED <<args, locations, children, singles, nread, pending,
                   local_written>>
    /\ UNCHANGED <<combVars, taskVars, runVars, extVars>>

\* the gather raises as soon as one task has raised; the other tasks are left
\* to run
L2RGatherRaise ==
    /\ copy_pc = "gather_singles"
    /\ \E i \in DOMAIN singles : singles[i] = "failed"
    /\ copy_pc' = "raised"
    /\ copy_result' = Raise("WorkflowExecutionException", "Error copying")
    /\ UNCHANGED <<args, locations, children, singles, nread, pending,
                   local_written>>
    /\ UNCHANGED <<combVars, taskVars, runVars, extVars>>

(***************************************************************************)
(* _copy_remote_to_local                                                   *)
(***************************************************************************)
\* create_subprocess_exec returned (lines 149-159): the tar stream is opened
\* and extract_tar_stream awaited
R2LSpawn ==
    /\ copy_pc = "r2l_spawn"
    /\ children' = Append(children,
                          Child("tar", locations[1], <<"tar", "chf", "-", "-C", "/">>,
                                "none"))
    /\ copy_pc' = "r2l_extract"
    /\ UNCHANGED <<args, locations, singles, nread, pending, copy_result,
                   local_written>>
    /\ UNCHANGED <<combVars, taskVars, runVars, extVars>>

\* extract_tar_stream returned: the finally block awaits the process
R2LExtract ==
    /\ copy_pc = "r2l_extract"
    /\ local_written' = TRUE
    /\ copy_pc' = "wait_tar"
    /\ UNCHANGED <<args, locations, children, singles, nread, pending, copy_result>>
    /\ UNCHANGED <<combVars, taskVars, runVars, extVars>>

\* extract_tar_stream raised TarError, after it wrote a part or nothing
R2LExtractRaise ==
    /\ copy_pc = "r2l_extract"
    /\ local_written' \in BOOLEAN
    /\ pending' = "error"
    /\ copy_pc' = "wait_tar"
    /\ UNCHANGED <<args, locations, children, singles, nread, copy_result>>
    /\ UNCHANGED <<combVars, taskVars, runVars, extVars>>

\* proc.wait() returned: the function returns, or raises what was pending
R2LWaitResume ==
    /\ copy_pc = "wait_tar"
    /\ \E i \in ChildrenOf("tar") :
           /\ children[i].st = "exited"
           /\ children' = [children EXCEPT ![i].awaited = TRUE]
    /\ copy_pc' = IF pending = "none" THEN "returned" ELSE "raised"
    /\ copy_result' = IF pending = "none" THEN Returned
                      ELSE Raise("WorkflowExecutionException", "Error copying")
    /\ pending' = "none"
    /\ UNCHANGED <<args, locations, singles, nread, local_written>>
    /\ UNCHANGED <<combVars, taskVars, runVars, extVars>>

NextCopy ==
    \/ CopyStart
    \/ \E i \in DOMAIN children : ChildExit(i)
    \/ R2RCpResume
    \/ R2RWriteCommand
    \/ R2RWriteCommandRaise
    \/ \E location \in Locations : R2RWriterSpawn(location)
    \/ R2RSpawnResume
    \/ R2RRead
    \/ R2REndOfStream
    \/ R2RReadRaise
    \/ \E w \in DOMAIN children : R2RDrain(w)
    \/ \E w \in DOMAIN children : R2RDrainRaise(w)
    \/ R2RDrainResume
    \/ R2RWaitResume
    \/ R2RCancel
    \/ \E i \in 1..MaxLocations : L2RSingleSpawn(i)
    \/ \E i \in 1..MaxLocations : L2RSingleTar(i)
    \/ \E i \in 1..MaxLocations : L2RSingleTarRaise(i)
    \/ \E i \in 1..MaxLocations : L2RSingleWait(i)
    \/ L2RGatherReturn
    \/ L2RGatherRaise
    \/ R2LSpawn
    \/ R2LExtract
    \/ R2LExtractRaise
    \/ R2LWaitResume

SpecCopy == InitCopy /\ [][NextCopy]_vars

(***************************************************************************)
(* Strings are sequences of one-character strings, so that their length,   *)
(* their blanks and their quotes are what the code makes them.             *)
(***************************************************************************)
\* the position of the last "/" of a path, 0 when it has none (str.rfind + 1)
RECURSIVE rfind_slash(_)
rfind_slash(p) ==
    IF p = <<>> THEN 0
    ELSE IF Last(p) = "/" THEN Len(p)
    ELSE rfind_slash(SubSeq(p, 1, Len(p) - 1))

RECURSIVE rstrip_slash(_)
rstrip_slash(p) ==
    IF p = <<>> THEN p
    ELSE IF Last(p) = "/" THEN rstrip_slash(SubSeq(p, 1, Len(p) - 1)) ELSE p

\* posixpath.basename
basename(p) == SubSeq(p, rfind_slash(p) + 1, Len(p))

\* posixpath.dirname
dirname(p) ==
    LET head == SubSeq(p, 1, rfind_slash(p))
    IN  IF head # <<>> /\ \E i \in DOMAIN head : head[i] # "/"
        THEN rstrip_slash(head)
        ELSE head

(***************************************************************************)
(* utils.get_remote_to_remote_write_command: one call.                     *)
(***************************************************************************)
SrcPaths == { <<"/", "s", "/", "a">>, <<"/", "s", "/", "b">> }

DstPaths == { <<"/", "t", "/", "a">>, <<"/", "t", "/", "b">>, <<"/", "a">> }

\* the words of the commands
tar_xf == << <<"t", "a", "r">>, <<"x", "f">>, <<"-">> >>
opt_C == <<"-", "C">>
opt_O == <<"-", "O">>
opt_strip == <<"-", "-", "s", "t", "r", "i", "p">>
one == <<"1">>
redirect == <<">">>
test_d == <<"t", "e", "s", "t", " ", "-", "d">>
mkdir_p == << <<"m", "k", "d", "i", "r">>, <<"-", "p">> >>

\* the source location of the call
SourceLocation == 0

\* the command of the probe: the one string test -d "src" (line 153)
probe(src) == << test_d \o <<" ", "\"">> \o src \o <<"\"">> >>

\* whether string str starts with string prefix
StartsWith(str, prefix) ==
    IF Len(str) < Len(prefix) THEN FALSE
    ELSE SubSeq(str, 1, Len(prefix)) = prefix

\* a command run on a location, with the exit code it gave
Ran(location, command, status) ==
    [location |-> location, command |-> command, status |-> status]

InitWriteCommand ==
    /\ \E src \in SrcPaths : \E dst \in DstPaths : \E l \in LocationLists :
           call = [fn |-> "get_remote_to_remote_write_command", src |-> src,
                   dst |-> dst, dst_locations |-> l]
    /\ ret = <<>>
    /\ upc = "start"
    /\ ran = <<>>
    /\ StackUnused
    /\ HelmUnused
    /\ ConnUnused
    /\ TaskUnused
    /\ kind = "unused"
    /\ ports = <<>>
    /\ stream = <<>>
    /\ pos = <<>>
    /\ rd = <<>>
    /\ token_lists = <<>>
    /\ terminated = <<>>
    /\ queue = <<>>
    /\ mpc = "none"
    /\ cpc = "unused"
    /\ returned = <<>>

\* the function up to its first suspension: with equal basenames it returns
\* at once (line 175), otherwise it runs the probe (lines 151-155)
WriteCommandStart ==
    /\ upc = "start"
    /\ IF basename(call.src) = basename(call.dst)
       THEN /\ ret' = tar_xf \o <<opt_C, dirname(call.dst)>>
            /\ upc' = "returned"
            /\ UNCHANGED ran
       ELSE /\ upc' = "probe"
            /\ UNCHANGED <<ret, ran>>
    /\ UNCHANGED <<call, stack, helm>>
    /\ UNCHANGED <<combVars, taskVars, connVars>>

\* a function that takes exit code 0 of the probe for a file
write_command_FileOnZero(status, dst) ==
    IF status = 0
    THEN tar_xf \o <<opt_O, redirect, dst>>
    ELSE tar_xf \o <<opt_C, dst, opt_strip, one>>

\* the command for a source that the probe found to be a directory (status 0)
\* or a file (lines 159-173)
write_command(status, dst) ==
    IF status = 0
    THEN tar_xf \o <<opt_C, dst, opt_strip, one>>
    ELSE tar_xf \o <<opt_O, redirect, dst>>

\* run of the probe returned (lines 151-173): an exit code above 1 raises, 0
\* gathers one mkdir -p per destination, 1 returns the command for a file
WriteCommandProbe ==
    /\ upc = "probe"
    /\ \E status \in 0..MaxReturnCode :
        /\ ran' = Append(ran, Ran(SourceLocation, probe(call.src), status))
        /\ IF status > 1
           THEN /\ ret' = <<"WorkflowExecutionException">>
                /\ upc' = "raised"
           ELSE IF status = 0
           THEN /\ upc' = "mkdir"
                /\ UNCHANGED ret
           ELSE /\ ret' = write_command(status, call.dst)
                /\ upc' = "returned"
    /\ UNCHANGED <<call, stack, helm>>
    /\ UNCHANGED <<combVars, taskVars, connVars>>

\* the locations the gathered mkdir has run on
MkdirDone == { ran[i].location : i \in { k \in DOMAIN ran : ran[k].command[1] = mkdir_p[1] } }

\* one mkdir -p of the gather returns (line 163)
WriteCommandMkdir(location) ==
    /\ upc = "mkdir"
    /\ Contains(call.dst_locations, location)
    /\ location \notin MkdirDone
    /\ ran' = Append(ran, Ran(location, mkdir_p \o <<call.dst>>, 0))
    /\ UNCHANGED <<call, ret, upc, stack, helm>>
    /\ UNCHANGED <<combVars, taskVars, connVars>>

\* the gather of the mkdir returned: the command for a directory (line 170)
WriteCommandMkdirResume ==
    /\ upc = "mkdir"
    /\ \A i \in DOMAIN call.dst_locations : call.dst_locations[i] \in MkdirDone
    /\ ret' = write_command(0, call.dst)
    /\ upc' = "returned"
    /\ UNCHANGED <<call, ran, stack, helm>>
    /\ UNCHANGED <<combVars, taskVars, connVars>>

NextWriteCommand ==
    \/ WriteCommandStart
    \/ WriteCommandProbe
    \/ \E location \in Locations : WriteCommandMkdir(location)
    \/ WriteCommandMkdirResume

SpecWriteCommand == InitWriteCommand /\ [][NextWriteCommand]_vars

(***************************************************************************)
(* utils.create_command: one call.                                         *)
(***************************************************************************)
\* the longest path given as stdin, stdout or stderr
MaxPathLen == 2

\* the characters of those paths: a safe one, a blank, a single quote
PathChars == {"o", " ", "'"}

Paths == UNION { [1..n -> PathChars] : n \in 1..MaxPathLen }

\* asyncio.subprocess.STDOUT: a value no path is equal to
STDOUT == <<"STDOUT">>

\* the characters shlex.quote leaves alone, among those of the model
IsSafeChar(c) == c \in {"o", "i", "w", "/", "."}

\* str.replace("'", "'\"'\"'")
RECURSIVE escape_quotes(_)
escape_quotes(str) ==
    IF str = <<>> THEN <<>>
    ELSE (IF Head(str) = "'" THEN <<"'", "\"", "'", "\"", "'">> ELSE <<Head(str)>>)
             \o escape_quotes(Tail(str))

\* shlex.quote
quote(str) ==
    IF str = <<>> THEN <<"'", "'">>
    ELSE IF \A i \in DOMAIN str : IsSafeChar(str[i]) THEN str
    ELSE <<"'">> \o escape_quotes(str) \o <<"'">>

\* sep.join(list)
RECURSIVE join(_, _)
join(sep, list) ==
    IF list = <<>> THEN <<>>
    ELSE IF Len(list) = 1 THEN list[1]
    ELSE list[1] \o sep \o join(sep, Tail(list))

\* "".join of the export of every variable, in the order of the mapping
RECURSIVE exports(_)
exports(environment) ==
    IF environment = <<>> THEN <<>>
    ELSE <<"e", "x", "p", "o", "r", "t", " ">> \o environment[1].key
             \o <<"=", "\"">> \o environment[1].value \o <<"\"", " ", "&", "&", " ">>
             \o exports(Tail(environment))

\* the segments of the command (lines 71-89)
workdir_segment(workdir) ==
    IF workdir # None THEN <<"c", "d", " ">> \o workdir \o <<" ", "&", "&", " ">>
    ELSE <<>>

stdin_segment(stdin) ==
    IF stdin # None THEN <<" ", "<", " ">> \o quote(stdin) ELSE <<>>

stdout_segment(stdout) ==
    IF stdout # STDOUT THEN <<" ", ">", " ">> \o quote(stdout) ELSE <<>>

\* a create_command that tests the sentinel first
stderr_segment_SentinelFirst(stdout, stderr) ==
    IF stderr = STDOUT THEN <<>>
    ELSE IF stderr = stdout THEN <<" ", "2", ">", "&", "1">>
    ELSE <<" ", "2", ">">> \o quote(stderr)

stderr_segment(stdout, stderr) ==
    IF stderr = stdout THEN <<" ", "2", ">", "&", "1">>
    ELSE IF stderr # STDOUT THEN <<" ", "2", ">">> \o quote(stderr)
    ELSE <<>>

\* an environment of None is rendered as an empty one is
create_command(command, environment, workdir, stdin, stdout, stderr) ==
    workdir_segment(workdir)
        \o exports(environment)
        \o join(<<" ">>, command)
        \o stdin_segment(stdin)
        \o stdout_segment(stdout)
        \o stderr_segment(stdout, stderr)

InitCreateCommand ==
    /\ \E environment \in { <<>>, <<[key |-> <<"A">>, value |-> <<"1">>]>> } :
       \E workdir \in {None, <<"/", "w">>} :
       \E stdin \in {None, <<"i">>, <<"i", " ">>} :
       \E stdout \in Paths \cup {STDOUT} :
       \E stderr \in Paths \cup {STDOUT} :
           call = [fn |-> "create_command",
                   command |-> << <<"e", "c", "h", "o">>, <<"h", "i">> >>,
                   environment |-> environment, workdir |-> workdir,
                   stdin |-> stdin, stdout |-> stdout, stderr |-> stderr]
    /\ ret = <<>>
    /\ upc = "start"
    /\ ran = <<>>
    /\ StackUnused
    /\ HelmUnused
    /\ ConnUnused
    /\ TaskUnused
    /\ kind = "unused"
    /\ ports = <<>>
    /\ stream = <<>>
    /\ pos = <<>>
    /\ rd = <<>>
    /\ token_lists = <<>>
    /\ terminated = <<>>
    /\ queue = <<>>
    /\ mpc = "none"
    /\ cpc = "unused"
    /\ returned = <<>>

CreateCommand ==
    /\ upc = "start"
    /\ ret' = create_command(call.command, call.environment, call.workdir,
                             call.stdin, call.stdout, call.stderr)
    /\ upc' = "returned"
    /\ UNCHANGED <<call, ran, stack, helm>>
    /\ UNCHANGED <<combVars, taskVars, connVars>>

NextCreateCommand == CreateCommand

SpecCreateCommand == InitCreateCommand /\ [][NextCreateCommand]_vars

(***************************************************************************)
(* BaseConnector.get_option: one call.                                     *)
(***************************************************************************)
\* the most items of a sequence given as value
MaxItems == 2

\* the option names: one character, or two
OptionNames == UNION { [1..n -> {"n", "s"}] : n \in 1..2 }

OptionStrings == { <<>>, <<"v">>, <<"v", "w">> }

\* the values: None, a bool, a str, a list of str
Value(type, b, s, l) == [type |-> type, b |-> b, s |-> s, l |-> l]

OptionValues ==
    { Value("None", FALSE, <<>>, <<>>) }
        \cup { Value("bool", b, <<>>, <<>>) : b \in BOOLEAN }
        \cup { Value("str", FALSE, s, <<>>) : s \in OptionStrings }
        \cup { Value("list", FALSE, <<>>, l) :
                   l \in UNION { [1..n -> OptionStrings] : n \in 0..MaxItems } }

\* f'-{name} "{item}" '
option_item(name, item) ==
    <<"-">> \o name \o <<" ", "\"">> \o item \o <<"\"", " ">>

RECURSIVE option_items(_, _)
option_items(name, value) ==
    IF value = <<>> THEN <<>>
    ELSE option_item(name, Head(value)) \o option_items(name, Tail(value))

get_option(name, value) ==
    LET name_ == IF Len(name) > 1 THEN <<"-">> \o name \o <<" ">> ELSE name
    IN  IF value.type = "bool"
        THEN (IF value.b THEN <<"-">> \o name_ \o <<" ">> ELSE <<>>)
        ELSE IF value.type = "str"
        THEN option_item(name_, value.s)
        ELSE IF value.type = "list"
        THEN option_items(name_, value.l)
        ELSE <<>>

InitGetOption ==
    /\ \E name \in OptionNames : \E value \in OptionValues :
           call = [fn |-> "get_option", name |-> name, value |-> value]
    /\ ret = <<>>
    /\ upc = "start"
    /\ ran = <<>>
    /\ StackUnused
    /\ HelmUnused
    /\ ConnUnused
    /\ TaskUnused
    /\ kind = "unused"
    /\ ports = <<>>
    /\ stream = <<>>
    /\ pos = <<>>
    /\ rd = <<>>
    /\ token_lists = <<>>
    /\ terminated = <<>>
    /\ queue = <<>>
    /\ mpc = "none"
    /\ cpc = "unused"
    /\ returned = <<>>

GetOption ==
    /\ upc = "start"
    /\ ret' = get_option(call.name, call.value)
    /\ upc' = "returned"
    /\ UNCHANGED <<call, ran, stack, helm>>
    /\ UNCHANGED <<combVars, taskVars, connVars>>

NextGetOption == GetOption

SpecGetOption == InitGetOption /\ [][NextGetOption]_vars

(***************************************************************************)
(* Helm2Connector and Helm3Connector (helm.py): deploy, the cached API     *)
(* clients the connector makes while it is deployed, undeploy.             *)
(***************************************************************************)
NoHelmProc == [st |-> "none", returncode |-> 0]

InitHelm ==
    /\ \E variant \in {"Helm2Connector", "Helm3Connector"} :
           helm = [variant |-> variant,
                   client |-> "None", client_ws |-> "None",
                   configuration |-> "None",
                   closed |-> {},
                   deployed |-> FALSE,
                   pc |-> "idle",
                   proc |-> NoHelmProc,
                   last |-> "none",
                   result |-> <<"none">>]
    /\ CallUnused
    /\ StackUnused
    /\ ConnUnused
    /\ TaskUnused
    /\ kind = "unused"
    /\ ports = <<>>
    /\ stream = <<>>
    /\ pos = <<>>
    /\ rd = <<>>
    /\ token_lists = <<>>
    /\ terminated = <<>>
    /\ queue = <<>>
    /\ mpc = "none"
    /\ cpc = "unused"
    /\ returned = <<>>

HelmFrame ==
    /\ UNCHANGED <<call, ret, upc, ran, stack>>
    /\ UNCHANGED <<combVars, taskVars, connVars>>

\* deploy, up to the await of proc.wait() (helm.py 399-470, 600-656)
HelmDeployStart ==
    /\ helm.pc = "idle"
    /\ ~helm.deployed
    /\ helm' = [helm EXCEPT !.pc = "deploy_wait",
                            !.proc = [st |-> "running", returncode |-> 0],
                            !.result = <<"none">>]
    /\ HelmFrame

\* undeploy, up to the await of proc.wait() (helm.py 472-501, 658-674)
HelmUndeployStart ==
    /\ helm.pc = "idle"
    /\ helm.deployed
    /\ helm' = [helm EXCEPT !.pc = "undeploy_wait",
                            !.proc = [st |-> "running", returncode |-> 0],
                            !.result = <<"none">>]
    /\ HelmFrame

\* the helm process exits
HelmExit ==
    /\ helm.proc.st = "running"
    /\ \E rc \in 0..MaxReturnCode :
           helm' = [helm EXCEPT !.proc = [st |-> "exited", returncode |-> rc]]
    /\ HelmFrame

\* deploy, from proc.wait() to its return: it returns None
HelmDeployReturn ==
    /\ helm.pc = "deploy_wait"
    /\ helm.proc.st = "exited"
    /\ helm' = [helm EXCEPT !.pc = "idle", !.deployed = TRUE, !.last = "deploy",
                            !.result = None]
    /\ HelmFrame

\* undeploy after proc.wait(): Helm3Connector closes and forgets its clients
\* and its configuration (lines 675-682), Helm2Connector does nothing more
undeploy(h) ==
    IF h.variant = "Helm3Connector"
    THEN [h EXCEPT !.closed = @ \cup { c \in {"client", "client_ws"} : h[c] # "None" },
                   !.client = "None",
                   !.client_ws = "None",
                   !.configuration = "None"]
    ELSE h

\* undeploy, from proc.wait() to its return: it returns None
HelmUndeployReturn ==
    /\ helm.pc = "undeploy_wait"
    /\ helm.proc.st = "exited"
    /\ helm' = [undeploy(helm) EXCEPT !.pc = "idle", !.deployed = FALSE,
                                      !.last = "undeploy", !.result = None]
    /\ HelmFrame

\* _get_client (lines 197-201), called by the operations of a deployed
\* connector: the client is made once and cached
HelmGetClient ==
    /\ helm.pc = "idle"
    /\ helm.deployed
    /\ helm.client = "None"
    /\ helm' = [helm EXCEPT !.client = "open", !.configuration = "set",
                            !.closed = @ \ {"client"}]
    /\ HelmFrame

\* _get_client_ws (lines 203-207)
HelmGetClientWs ==
    /\ helm.pc = "idle"
    /\ helm.deployed
    /\ helm.client_ws = "None"
    /\ helm' = [helm EXCEPT !.client_ws = "open", !.configuration = "set",
                            !.closed = @ \ {"client_ws"}]
    /\ HelmFrame

NextHelm ==
    \/ HelmDeployStart
    \/ HelmUndeployStart
    \/ HelmExit
    \/ HelmDeployReturn
    \/ HelmUndeployReturn
    \/ HelmGetClient
    \/ HelmGetClientWs

SpecHelm == InitHelm /\ [][NextHelm]_vars

(***************************************************************************)
(* The cached configuration and clients of a Helm connector (helm.py       *)
(* 197-219) under concurrent invocations: each caller is an asyncio task,  *)
(* load_kube_config is the one suspension point, the in-cluster load is    *)
(* synchronous.  `loadable` tells whether the load succeeds in this        *)
(* environment (namespace file, kubeconfig).                               *)
(***************************************************************************)
MaxCalls == 3

Callers == {"t1", "t2"}

ClientKinds == {"client", "client_ws"}

IdleCaller == [pc |-> "idle", op |-> "none", got |-> "none"]

InitHelmClients ==
    /\ \E inCluster \in BOOLEAN, loadable \in BOOLEAN :
           helm = [inCluster |-> inCluster,
                   loadable |-> loadable,
                   configuration |-> "None",
                   client |-> "None", client_ws |-> "None",
                   created |-> [k \in ClientKinds |-> 0],
                   callers |-> [c \in Callers |-> IdleCaller],
                   calls |-> 0]
    /\ CallUnused
    /\ StackUnused
    /\ ConnUnused
    /\ TaskUnused
    /\ kind = "unused"
    /\ ports = <<>>
    /\ stream = <<>>
    /\ pos = <<>>
    /\ rd = <<>>
    /\ token_lists = <<>>
    /\ terminated = <<>>
    /\ queue = <<>>
    /\ mpc = "none"
    /\ cpc = "unused"
    /\ returned = <<>>

\* _get_configuration raises in caller c: the error goes through _get_client
RaisedIn(h, c, op) ==
    [h EXCEPT !.callers[c] = [pc |-> "idle", op |-> op, got |-> "raised"]]

\* _get_configuration returns to caller c a Configuration in state `got`;
\* _get_client / _get_client_ws then make a client and store it (lines
\* 199-200, 205-206)
Got(h, c, op, got) ==
    LET g == [h EXCEPT !.callers[c] = [pc |-> "idle", op |-> op, got |-> got]] IN
    IF op \in ClientKinds
    THEN [g EXCEPT ![op] = "open", !.created[op] = @ + 1]
    ELSE g

\* _get_configuration (lines 209-219) in caller c, up to its return, its
\* error, or its suspension in load_kube_config
_get_configuration(h, c, op) ==
    IF h.configuration = "None"
    THEN IF h.inCluster
         THEN IF h.loadable
              THEN Got([h EXCEPT !.configuration = "loaded"], c, op, "loaded")
              ELSE RaisedIn([h EXCEPT !.configuration = "new"], c, op)
         ELSE [h EXCEPT !.configuration = "new",
                        !.callers[c] = [pc |-> "loading", op |-> op, got |-> "none"]]
    ELSE Got(h, c, op, h.configuration)

\* caller c calls _get_client, _get_client_ws or _get_configuration
HelmCall(c, op) ==
    /\ helm.callers[c].pc = "idle"
    /\ helm.calls < MaxCalls
    /\ LET h == [helm EXCEPT !.calls = @ + 1] IN
       helm' = IF op \in ClientKinds /\ h[op] # "None"
               THEN [h EXCEPT !.callers[c] = [pc |-> "idle", op |-> op, got |-> "cached"]]
               ELSE _get_configuration(h, c, op)
    /\ HelmFrame

\* load_kube_config completes or raises in caller c (line 218)
HelmLoadDone(c) ==
    /\ helm.callers[c].pc = "loading"
    /\ helm' = IF helm.loadable
               THEN Got([helm EXCEPT !.configuration = "loaded"], c,
                        helm.callers[c].op, "loaded")
               ELSE RaisedIn(helm, c, helm.callers[c].op)
    /\ HelmFrame

\* Helm3Connector.undeploy forgets the clients and the configuration
\* (lines 675-682)
HelmClientsUndeploy ==
    /\ \A c \in Callers : helm.callers[c].pc = "idle"
    /\ helm.configuration # "None"
    /\ helm' = [helm EXCEPT !.configuration = "None",
                            !.client = "None", !.client_ws = "None",
                            !.created = [k \in ClientKinds |-> 0],
                            !.callers = [c \in Callers |-> IdleCaller]]
    /\ HelmFrame

NextHelmClients ==
    \/ \E c \in Callers : \E op \in ClientKinds \cup {"configuration"} : HelmCall(c, op)
    \/ \E c \in Callers : HelmLoadDone(c)
    \/ HelmClientsUndeploy

SpecHelmClients == InitHelmClients /\ [][NextHelmClients]_vars

(***************************************************************************)
(* NamesStack (utils.py): a stack of scopes, each a set of names.          *)
(***************************************************************************)
MaxScopes == 3

Names == {"a", "b"}

NoAnswer == [kind |-> "none"]

\* __contains__ (lines 53-57): the scopes from the base up, true at the
\* first one that holds the name
RECURSIVE contains_from(_, _, _)
contains_from(s, name, i) ==
    IF i > Len(s) THEN FALSE
    ELSE IF name \in s[i] THEN TRUE
    ELSE contains_from(s, name, i + 1)

contains(s, name) == contains_from(s, name, 1)

\* the loop of global_names (lines 48-50) from scope i on
RECURSIVE difference_from(_, _, _)
difference_from(s, names, i) ==
    IF i > Len(s) THEN names
    ELSE difference_from(s, names \ s[i], i + 1)

\* a global_names that subtracts the innermost scope only
global_names_InnermostOnly(s) ==
    IF Len(s) > 1 THEN s[1] \ s[Len(s)] ELSE s[1]

\* global_names (lines 45-51)
global_names(s) ==
    IF Len(s) > 1 THEN difference_from(s, s[1], 2) ELSE s[1]

InitNames ==
    /\ stack = << {} >>
    /\ call = NoAnswer
    /\ ret = NoAnswer
    /\ upc = "idle"
    /\ ran = <<>>
    /\ HelmUnused
    /\ ConnUnused
    /\ TaskUnused
    /\ kind = "unused"
    /\ ports = <<>>
    /\ stream = <<>>
    /\ pos = <<>>
    /\ rd = <<>>
    /\ token_lists = <<>>
    /\ terminated = <<>>
    /\ queue = <<>>
    /\ mpc = "none"
    /\ cpc = "unused"
    /\ returned = <<>>

NamesFrame ==
    /\ UNCHANGED <<ran, helm>>
    /\ UNCHANGED <<combVars, taskVars, connVars>>

\* a call that changes the stack: the answer of an earlier query is past
Changed(s) ==
    /\ stack' = s
    /\ call' = NoAnswer
    /\ ret' = NoAnswer
    /\ upc' = "idle"
    /\ NamesFrame

\* add_scope (lines 34-35)
NamesAddScope ==
    /\ upc \in {"idle", "contains", "global_names"}
    /\ Len(stack) < MaxScopes
    /\ Changed(Append(stack, {}))

\* add_name (lines 37-38); stack[-1] of an empty stack raises IndexError
NamesAddName ==
    /\ upc \in {"idle", "contains", "global_names"}
    /\ Len(stack) > 0
    /\ \E name \in Names :
           Changed([stack EXCEPT ![Len(stack)] = @ \cup {name}])

\* delete_scope (lines 40-41); pop of an empty stack raises IndexError
NamesDeleteScope ==
    /\ upc \in {"idle", "contains", "global_names"}
    /\ Len(stack) > 0
    /\ Changed(SubSeq(stack, 1, Len(stack) - 1))

\* delete_name (lines 43-44); set.remove of an absent name raises KeyError
NamesDeleteName ==
    /\ upc \in {"idle", "contains", "global_names"}
    /\ Len(stack) > 0
    /\ \E name \in stack[Len(stack)] :
           Changed([stack EXCEPT ![Len(stack)] = @ \ {name}])

\* name in stack
NamesContains ==
    /\ upc \in {"idle", "contains", "global_names"}
    /\ \E name \in Names :
           /\ call' = [kind |-> "name", value |-> name]
           /\ ret' = [kind |-> "bool", value |-> contains(stack, name)]
    /\ upc' = "contains"
    /\ UNCHANGED stack
    /\ NamesFrame

\* global_names(); stack[0] of an empty stack raises IndexError
NamesGlobalNames ==
    /\ upc \in {"idle", "contains", "global_names"}
    /\ Len(stack) > 0
    /\ call' = NoAnswer
    /\ ret' = [kind |-> "set", value |-> global_names(stack)]
    /\ upc' = "global_names"
    /\ UNCHANGED stack
    /\ NamesFrame

NextNames ==
    \/ NamesAddScope
    \/ NamesAddName
    \/ NamesDeleteScope
    \/ NamesDeleteName
    \/ NamesContains
    \/ NamesGlobalNames

SpecNames == InitNames /\ [][NextNames]_vars

(***************************************************************************)
(* flatten_list (utils.py).  A list is [kind |-> "List", value |-> the     *)
(* sequence of its elements], any other element is a scalar.               *)
(***************************************************************************)
MaxListLen == 2

List(s) == [kind |-> "List", value |-> s]

Scalars == { [kind |-> "Scalar", value |-> n] : n \in {1, 2} }

SeqsOver(S) == UNION { [1..n -> S] : n \in 0..MaxListLen }

\* the lists of scalars
FlatLists == { List(s) : s \in SeqsOver(Scalars) }

\* the lists of scalars and of lists of scalars
NestedLists == { List(s) : s \in SeqsOver(Scalars \cup FlatLists) }

\* isinstance(el, MutableSequence)
IsMutableSequence(el) == el.kind = "List"

RECURSIVE flatten_list(_)
RECURSIVE flatten_from(_, _, _)

\* a loop that puts each element in front of flat_list
flatten_from_Prepend(s, i, flat_list) ==
    IF i > Len(s) THEN flat_list
    ELSE flatten_from(s, i + 1,
             IF IsMutableSequence(s[i])
             THEN flatten_list(s[i]).value \o flat_list
             ELSE <<s[i]>> \o flat_list)

\* the loop of lines 111-115 from element i on
flatten_from(s, i, flat_list) ==
    IF i > Len(s) THEN flat_list
    ELSE flatten_from(s, i + 1,
             IF IsMutableSequence(s[i])
             THEN flat_list \o flatten_list(s[i]).value
             ELSE Append(flat_list, s[i]))

\* flatten_list (lines 107-116): an empty list is returned as it is
flatten_list(hierarchical_list) ==
    IF Len(hierarchical_list.value) = 0 THEN hierarchical_list
    ELSE List(flatten_from(hierarchical_list.value, 1, <<>>))

InitFlatten ==
    /\ call \in NestedLists
    /\ ret = List(<<>>)
    /\ ran = List(<<>>)
    /\ upc = "start"
    /\ StackUnused
    /\ HelmUnused
    /\ ConnUnused
    /\ TaskUnused
    /\ kind = "unused"
    /\ ports = <<>>
    /\ stream = <<>>
    /\ pos = <<>>
    /\ rd = <<>>
    /\ token_lists = <<>>
    /\ terminated = <<>>
    /\ queue = <<>>
    /\ mpc = "none"
    /\ cpc = "unused"
    /\ returned = <<>>

\* flatten_list(x)
FlattenList ==
    /\ upc = "start"
    /\ ret' = flatten_list(call)
    /\ upc' = "flattened"
    /\ UNCHANGED <<call, ran, stack, helm>>
    /\ UNCHANGED <<combVars, taskVars, connVars>>

\* flatten_list of what flatten_list(x) returned
FlattenListAgain ==
    /\ upc = "flattened"
    /\ ran' = flatten_list(ret)
    /\ upc' = "again"
    /\ UNCHANGED <<call, ret, stack, helm>>
    /\ UNCHANGED <<combVars, taskVars, connVars>>

NextFlatten ==
    \/ FlattenList
    \/ FlattenListAgain

SpecFlatten == InitFlatten /\ [][NextFlatten]_vars

(***************************************************************************)
(* Properties of the combinators                                           *)
(***************************************************************************)
\* the non-terminal firings among those returned, in order
NonTerminal(fs) == SelectSeq(fs, LAMBDA f : ~check_termination(f))

\* the terminal firings among those returned
Terminal(fs) == SelectSeq(fs, LAMBDA f : check_termination(f))

Count(fs, f) == Cardinality({ i \in DOMAIN fs : fs[i] = f })

\* no step is possible: the caller is suspended in get() for good (or stopped)
Quiescent == ~ENABLED NextComb

\* every port delivers k non-terminal tokens and then its TerminationToken
AllStreams(k) == \A p \in PortSet : Len(stream[p]) = k + 1

TerminalFiring == <<TerminationToken(CombName)>>

\* the i-th token of every port, in port order
IthOfEveryPort(i) == [j \in DOMAIN ports |-> Token(ports[j], i)]

C1Case ==
    /\ kind = "cart"
    /\ ports = <<"A", "B">>
    /\ AllStreams(2)

C1Pairs == { <<Token("A", i), Token("B", j)>> : i, j \in 1..2 }

\* C1: a CartesianProduct over [a1, a2, T] and [b1, b2, T] returns, under every
\* interleaving, non-terminal firings whose multiset is exactly the four pairs,
\* (a1, b1) first, followed by exactly one terminal firing.
C1_CartesianTwoByTwo ==
    C1Case =>
        /\ returned # <<>> => returned[1] = <<Token("A", 1), Token("B", 1)>>
        /\ \A i \in DOMAIN returned :
               check_termination(returned[i]) => i = Len(returned)
        /\ \A i \in DOMAIN returned :
               ~check_termination(returned[i]) =>
                   /\ returned[i] \in C1Pairs
                   /\ Count(returned, returned[i]) = 1
        /\ Quiescent =>
               /\ Len(returned) = 5
               /\ returned[5] = TerminalFiring
               /\ \A f \in C1Pairs : Count(returned, f) = 1

\* C2: a DotProduct over N ports that all deliver K tokens and a
\* TerminationToken returns, in K+1 get() calls, K firings of length N, the
\* i-th holding the i-th token of every port, and then one [TerminationToken].
C2_DotProductFirings ==
    \A k \in 0..MaxTokens :
        (kind = "dot" /\ AllStreams(k)) =>
            /\ Len(returned) <= k + 1
            /\ \A i \in DOMAIN returned :
                   returned[i] = IF i <= k THEN IthOfEveryPort(i) ELSE TerminalFiring
            /\ Quiescent => Len(returned) = k + 1

C2_Witness ==
    /\ kind = "dot"
    /\ Len(ports) >= 2
    /\ AllStreams(2)
    /\ Len(returned) = 3
    /\ returned[3] = TerminalFiring

\* C3: for both combinators and streams of any (also different, also zero)
\* lengths, repeated get() calls end up returning a terminal firing, exactly
\* once, after every non-terminal firing.
C3_TerminalFiringExactlyOnce ==
    /\ Len(Terminal(returned)) <= 1
    /\ \A i \in DOMAIN returned :
           check_termination(returned[i]) => i = Len(returned)
    /\ Quiescent => Len(Terminal(returned)) = 1

\* _initialize has run to its end
InitializeCompleted == DOMAIN token_lists # {} /\ cpc # "init_gather"

\* C4: when every port delivers a TerminationToken first, the first get() of a
\* CartesianProduct returns [TerminationToken] without blocking, and no
\* multiplier is started.
C4_EarlyTermination ==
    (kind = "cart" /\ AllStreams(0)) =>
        /\ mpc = "none"
        /\ InitializeCompleted => returned = <<TerminalFiring>>

\* C5: every non-terminal firing returned by get() holds exactly one token per
\* input port, in the port insertion order.
C5_OneTokenPerPort ==
    \A i \in DOMAIN returned :
        ~check_termination(returned[i]) =>
            /\ Len(returned[i]) = Len(ports)
            /\ \A j \in DOMAIN ports : returned[i][j].name = ports[j]

C5_Witness ==
    /\ kind = "cart"
    /\ Len(ports) >= 2
    /\ Len(NonTerminal(returned)) >= 2
    /\ \E i \in DOMAIN returned :
           /\ Len(returned[i]) = Len(ports)
           /\ returned[i][Len(ports)].value = 2

(***************************************************************************)
(* Properties of the task runner                                           *)
(***************************************************************************)
IsPrefix(s, t) == Len(s) <= Len(t) /\ \A i \in DOMAIN s : s[i] = t[i]

Terminations(p) == { i \in DOMAIN out[p] : IsTermination(out[p][i]) }

\* the tokens job j has put on port p
TokensOf(j, p) == { i \in DOMAIN out[p] : out[p][i].job = j }

\* C6: on every output port the TerminationToken is put after every token of
\* every job driver, at most once (once when run completes), and nothing is
\* put after it.
C6_TerminationTokenLast ==
    \A p \in OutPortSet :
        /\ Cardinality(Terminations(p)) <= 1
        /\ \A i \in Terminations(p) : i = Len(out[p])
        /\ rpc = "done" => Cardinality(Terminations(p)) = 1

C6_Witness ==
    /\ rpc = "done"
    /\ Len(jobs) = 2
    /\ \A p \in OutPortSet : Len(out[p]) = 3

\* the calls of a job driver of a task with a target, in the order of _run_job
TargetOrder ==
    << <<"deploy", "call">>, <<"deploy", "done">>,
       <<"schedule", "call">>, <<"schedule", "done">>,
       <<"mkdir", "call">>, <<"mkdir", "done">>,
       <<"update", "call">>, <<"update", "done">>,
       <<"notify_running", "call">>, <<"notify_running", "done">>,
       <<"execute", "call">>, <<"execute", "done">>,
       <<"notify_status", "call">>, <<"notify_status", "done">>,
       <<"output", "call">>, <<"output", "done">> >>

\* C7: a job driver of a task with a target and a true (or absent) condition
\* goes through deploy, schedule, the creation of both directories, the update
\* of the input tokens, notify RUNNING, execute, notify of the final status, in
\* this order, each called only after the one before has completed.
C7_DriverStepOrder ==
    \A j \in DOMAIN jobs :
        (target /\ jobs[j].cond) =>
            /\ IsPrefix(jobs[j].log, TargetOrder)
            /\ jobs[j].st = "done" => jobs[j].log = TargetOrder

C7_Witness ==
    \E j \in DOMAIN jobs :
        /\ target
        /\ jobs[j].inputs > 0
        /\ jobs[j].st = "done"
        /\ jobs[j].log = TargetOrder

\* C8: a job driver whose condition evaluated false deploys, schedules,
\* notifies, creates and executes nothing, and puts exactly one token per
\* output port, made of result = null and status = SKIPPED; run then puts the
\* TerminationToken on each output port.
C8_SkippedJob ==
    \A j \in DOMAIN jobs :
        ~jobs[j].cond =>
            /\ jobs[j].step \in {"output", "end"}
            /\ \A i \in DOMAIN jobs[j].log : jobs[j].log[i][1] = "output"
            /\ \A p \in OutPortSet :
                   /\ Cardinality(TokensOf(j, p)) <= 1
                   /\ jobs[j].st = "done" => Cardinality(TokensOf(j, p)) = 1
                   /\ \A i \in TokensOf(j, p) :
                          out[p][i] = OutToken(p, j, "null", "SKIPPED")
                   /\ rpc = "done" => out[p][Len(out[p])] = OutTermination(p)

C8_Witness ==
    /\ rpc = "done"
    /\ target
    /\ \E j \in DOMAIN jobs :
           /\ ~jobs[j].cond
           /\ \A p \in OutPortSet : Cardinality(TokensOf(j, p)) = 1

\* a driver, or a task a driver gathers, ended with an error
SomeError ==
    \E j \in DOMAIN jobs :
        \/ jobs[j].st = "failed"
        \/ \E k \in SubRange : jobs[j].sub[k] = "failed"

\* C9: when a step of a job driver raises, run does not complete and puts no
\* TerminationToken on any output port: TerminationTokens are put only when
\* every driver completed without error.
C9_ErrorMeansNoTermination ==
    /\ SomeError =>
           /\ rpc # "done"
           /\ \A p \in OutPortSet : Terminations(p) = {}
    /\ (\E p \in OutPortSet : Terminations(p) # {}) =>
           \A j \in DOMAIN jobs : jobs[j].st = "done"
    /\ rpc = "failed" => \E j \in DOMAIN jobs : jobs[j].st = "failed"

C9_Witness ==
    /\ rpc = "failed"
    /\ \E j \in DOMAIN jobs : jobs[j].st = "done"
    /\ \E j \in DOMAIN jobs : jobs[j].st = "failed" /\ jobs[j].step = "raised"
    /\ \A p \in OutPortSet : Len(out[p]) = 1

\* C10: cancelling run at any of its suspension points cancels every job
\* driver that was spawned and has not finished.
C10_CancelReachesDrivers ==
    rpc = "cancelled" =>
        \A j \in DOMAIN jobs :
            /\ jobs[j].st \in {"done", "failed", "cancelled"}
            /\ \A k \in SubRange : jobs[j].sub[k] # "pending"

\* C11: when a read of the background multiplier failed and nothing can move
\* any more, the caller of get() is not left blocked on the queue: the error
\* was surfaced to it.
C11_MultiplierErrorSurfaces ==
    (mpc = "failed" /\ ~ENABLED NextCombFailing) => cpc # "queue_get"

\* C16: when the timeout of run expires before the process has exited, run
\* fails with a timeout error and the process is not left running.
C16_TimeoutTerminatesProcess ==
    run_pc = "raised" =>
        /\ run_result = <<"TimeoutError">>
        /\ proc.st # "running"

\* r is str without its leading and trailing white space
IsStripped(r, str) ==
    \E i \in 0..Len(str) :
        /\ i + Len(r) <= Len(str)
        /\ r = SubSeq(str, i + 1, i + Len(r))
        /\ \A k \in 1..Len(str) :
               (k <= i \/ k > i + Len(r)) => IsSpace(str[k])
        /\ IF r = <<>> THEN TRUE
           ELSE ~IsSpace(r[1]) /\ ~IsSpace(r[Len(r)])

\* C19: run returns only after the process has exited; with capture_output it
\* returns the pair (decoded and stripped stdout, exit code) whatever the exit
\* code is, without capture_output it returns None; the only error it raises
\* is the expiry of a timeout that was set.
C19_RunReturnsPair ==
    /\ run_pc = "returned" =>
           /\ proc.st = "exited"
           /\ IF capture_output
              THEN /\ Len(run_result) = 2
                   /\ IsStripped(run_result[1], decode(proc.stdout))
                   /\ run_result[2] = proc.returncode
              ELSE run_result = None
    /\ run_pc = "raised" =>
           /\ timeout = "set"
           /\ run_result = <<"TimeoutError">>

C19_Witness ==
    /\ run_pc = "returned"
    /\ capture_output
    /\ proc.returncode = MaxReturnCode
    /\ proc.stdout = <<Blank, Letter>>
    /\ run_result = << <<"a">>, MaxReturnCode >>

\* the blocks 1..n, in source order
Blocks(n) == [i \in 1..n |-> i]

C12Case ==
    /\ args.kind = "REMOTE_TO_REMOTE"
    /\ args.source_connector = "self"
    /\ Contains(args.locations, args.source_location)
    /\ args.src # args.dst

CpAwaited == \E i \in ChildrenOf("run") : children[i].awaited

C13_BlocksInLockstep ==
    args.kind = "REMOTE_TO_REMOTE" =>
        \A w \in ChildrenOf("writer") :
            /\ children[w].recv = Blocks(nread)
            /\ children[w].drained <= nread
            /\ copy_pc = "read" => children[w].drained = nread
            /\ copy_pc = "drain" => children[w].drained >= nread - 1

C13_Witness ==
    /\ args.kind = "REMOTE_TO_REMOTE"
    /\ copy_pc = "read"
    /\ nread = 2
    /\ Cardinality(ChildrenOf("writer")) >= 2
    /\ \A w \in ChildrenOf("writer") :
           children[w].recv = <<1, 2>> /\ children[w].drained = 2

\* C14: when a copy surfaces a tar or stream error, every process the copy
\* has spawned has its stdin closed (if it has one) and has been awaited.
C14_ErrorAfterChildrenReaped ==
    (copy_pc = "raised"
        /\ copy_result.kind \in {"WorkflowExecutionException", "StreamError"}) =>
        \A i \in DOMAIN children :
            /\ children[i].stdin # "open"
            /\ children[i].awaited

\* C15: when a REMOTE_TO_REMOTE copy was cancelled during the spawn of the
\* writers, a read of the source or a drain, every writer it spawned has its
\* stdin closed and has been awaited by the time the cancellation leaves copy.
C15_CancelReapsWriters ==
    (copy_pc = "cancelled"
        /\ copy_result.msg \in {"spawn_writers", "read", "drain"}) =>
        \A w \in ChildrenOf("writer") :
            /\ children[w].stdin = "closed"
            /\ children[w].awaited

C17Case ==
    /\ args.kind = "REMOTE_TO_LOCAL"
    /\ Len(args.locations) > 1

\* C17: a REMOTE_TO_LOCAL copy with more than one location fails at once with
\* an error of its own, no process spawned and nothing written locally; no
\* other copy fails with that error.
C17_MultipleLocationsRejected ==
    /\ (C17Case /\ copy_pc # "start") =>
           /\ copy_pc = "raised"
           /\ copy_result.msg = MultipleLocations
           /\ children = <<>>
           /\ ~local_written
    /\ copy_result.msg = MultipleLocations => C17Case

C17_Witness ==
    /\ C17Case
    /\ copy_pc = "raised"
    /\ copy_result = Raise("Exception", MultipleLocations)

\* C18: a REMOTE_TO_REMOTE copy without source_location fails with a
\* WorkflowExecutionException, no process spawned.
C18_MissingSourceRejected ==
    (args.kind = "REMOTE_TO_REMOTE" /\ args.source_location = NoLocation
        /\ copy_pc # "start") =>
        /\ copy_pc = "raised"
        /\ copy_result.kind = "WorkflowExecutionException"
        /\ children = <<>>

\* the position of entry e in the log of a driver, 0 when it is not there
LogIndex(log, e) ==
    IF \E a \in DOMAIN log : log[a] = e
    THEN CHOOSE a \in DOMAIN log : log[a] = e
    ELSE 0

\* the drivers whose condition held and that went past the _init_dir gather
Staged(j) ==
    /\ jobs[j].st \in {"running", "done"}
    /\ jobs[j].cond
    /\ LogIndex(jobs[j].log, <<"mkdir", "done">>) > 0

TempRoot == IF target THEN "/tmp" ELSE gettempdir

\* C20: for every driver whose condition holds, once the gather of the two
\* _init_dir tasks is over, input_directory and output_directory are two
\* distinct paths <temproot>/streamflow/<name>, shared with no other driver;
\* the command is executed only after that gather is over, and while one of
\* the two mkdir is outstanding the command has not been called.
C20_DirectoriesBeforeCommand ==
    \A j \in DOMAIN jobs :
        /\ Staged(j) =>
               /\ jobs[j].input_directory # jobs[j].output_directory
               /\ \A dir \in {jobs[j].input_directory, jobs[j].output_directory} :
                      /\ Len(dir) = 3
                      /\ dir[1] = TempRoot
                      /\ dir[2] = "streamflow"
                      /\ \A i \in DOMAIN jobs :
                             i # j => dir \notin {jobs[i].input_directory,
                                                  jobs[i].output_directory}
        /\ (jobs[j].st \in {"running", "done"}
              /\ LogIndex(jobs[j].log, <<"execute", "call">>) > 0) =>
               /\ Staged(j)
               /\ LogIndex(jobs[j].log, <<"mkdir", "done">>)
                      < LogIndex(jobs[j].log, <<"execute", "call">>)
        /\ (jobs[j].st = "running" /\ jobs[j].step = "mkdir") =>
               /\ LogIndex(jobs[j].log, <<"execute", "call">>) = 0
               /\ jobs[j].input_directory = NoDirectory
               /\ jobs[j].output_directory = NoDirectory

C20_Witness ==
    /\ Len(jobs) >= 2
    /\ \A j \in DOMAIN jobs :
           /\ Staged(j)
           /\ LogIndex(jobs[j].log, <<"execute", "done">>) > 0
    /\ target
    /\ jobs[1].input_directory = <<"/tmp", "streamflow", random_name(1, 1)>>

\* the commands test -d ran so far
Probes == { i \in DOMAIN ran : StartsWith(ran[i].command[1], test_d) }

\* C21: with equal basenames the function returns tar xf - -C dirname(dst)
\* and runs nothing; otherwise it runs exactly one test -d src on the source
\* and returns tar xf - -C dst --strip-components 1 on exit code 0,
\* tar xf - -O > dst on exit code 1, and raises on any larger exit code.
C21_WriteCommand ==
    /\ basename(call.src) = basename(call.dst) =>
           /\ ran = <<>>
           /\ upc \in {"start", "returned"}
           /\ upc = "returned" =>
                  ret = << <<"t", "a", "r">>, <<"x", "f">>, <<"-">>, <<"-", "C">>,
                           dirname(call.dst) >>
    /\ (basename(call.src) # basename(call.dst) /\ upc \in {"returned", "raised"}) =>
           /\ Cardinality(Probes) = 1
           /\ ran[1].location = SourceLocation
           /\ ran[1].command =
                  << <<"t", "e", "s", "t", " ", "-", "d", " ", "\"">> \o call.src
                         \o <<"\"">> >>
           /\ ran[1].status = 0 =>
                  /\ upc = "returned"
                  /\ ret = << <<"t", "a", "r">>, <<"x", "f">>, <<"-">>, <<"-", "C">>,
                              call.dst, <<"-", "-", "s", "t", "r", "i", "p">>, <<"1">> >>
           /\ ran[1].status = 1 =>
                  /\ upc = "returned"
                  /\ ret = << <<"t", "a", "r">>, <<"x", "f">>, <<"-">>, <<"-", "O">>,
                              <<">">>, call.dst >>
           /\ ran[1].status > 1 =>
                  /\ upc = "raised"
                  /\ ret = <<"WorkflowExecutionException">>

C21_Witness ==
    /\ upc = "returned"
    /\ call.src = <<"/", "s", "/", "a">>
    /\ call.dst = <<"/", "t", "/", "b">>
    /\ Len(ran) = 1
    /\ ran[1].status = 1

\* whether string str ends with string suffix
EndsWith(str, suffix) ==
    IF Len(str) < Len(suffix) THEN FALSE
    ELSE SubSeq(str, Len(str) - Len(suffix) + 1, Len(str)) = suffix

\* the command up to and including the stdout segment, as the example of the
\* specification spells it: cd W && export K="V" && WORDS < IN > OUT
C22Front ==
    (IF call.workdir = None THEN <<>>
     ELSE <<"c", "d", " ">> \o call.workdir \o <<" ", "&", "&", " ">>)
    \o (IF call.environment = <<>> THEN <<>>
        ELSE <<"e", "x", "p", "o", "r", "t", " ", "A", "=", "\"", "1", "\"", " ",
               "&", "&", " ">>)
    \o <<"e", "c", "h", "o", " ", "h", "i">>
    \o (IF call.stdin = None THEN <<>> ELSE <<" ", "<", " ">> \o quote(call.stdin))
    \o (IF call.stdout = STDOUT THEN <<>> ELSE <<" ", ">", " ">> \o quote(call.stdout))

\* C22, as stated: the segments come in the order workdir, env, command,
\* stdin, stdout, stderr, and the stderr segment is nothing whenever stderr is
\* the STDOUT sentinel, 2>&1 when stderr is a path equal to stdout, and 2>
\* with the quoted path when it is a path different from stdout.
C22_StderrOperand ==
    upc = "returned" =>
        ret = C22Front \o
              (IF call.stderr = STDOUT THEN <<>>
               ELSE IF call.stderr = call.stdout THEN <<" ", "2", ">", "&", "1">>
               ELSE <<" ", "2", ">">> \o quote(call.stderr))

\* C22, amended: as above, but 2>&1 is rendered whenever stderr equals
\* stdout, the case of both being the STDOUT sentinel included; nothing is
\* rendered only when stderr is the sentinel and stdout is a path.
C22_StderrOperandAmended ==
    upc = "returned" =>
        ret = C22Front \o
              (IF call.stderr = call.stdout THEN <<" ", "2", ">", "&", "1">>
               ELSE IF call.stderr = STDOUT THEN <<>>
               ELSE <<" ", "2", ">">> \o quote(call.stderr))

C22_Witness ==
    /\ upc = "returned"
    /\ call.stdout = STDOUT
    /\ call.stderr = STDOUT
    /\ call.workdir # None
    /\ call.stdin = <<"i", " ">>
    /\ EndsWith(ret, <<"h", "i", " ", "<", " ", "'", "i", " ", "'", " ", "2", ">", "&", "1">>)

\* the flag of an option: -n for a one-character name, --name otherwise
Flag(name) == IF Len(name) = 1 THEN <<"-">> \o name ELSE <<"-", "-">> \o name

\* the flag, one space, the value in double quotes, one space
FlagWithValue(name, item) == Flag(name) \o <<" ", "\"">> \o item \o <<"\"", " ">>

RECURSIVE FlagWithValues(_, _)
FlagWithValues(name, items) ==
    IF items = <<>> THEN <<>>
    ELSE FlagWithValue(name, Head(items)) \o FlagWithValues(name, Tail(items))

\* C23: get_option returns the empty string for None and false; for true the
\* flag followed by exactly one space; for a string the flag, one space, the
\* quoted value and one space; for a sequence one such repetition per element,
\* in order.
C23_GetOption ==
    upc = "returned" =>
        ret = (IF call.value.type = "bool"
               THEN (IF call.value.b THEN Flag(call.name) \o <<" ">> ELSE <<>>)
               ELSE IF call.value.type = "str"
               THEN FlagWithValue(call.name, call.value.s)
               ELSE IF call.value.type = "list"
               THEN FlagWithValues(call.name, call.value.l)
               ELSE <<>>)

\* C24: when undeploy has completed, on either variant, the connector holds
\* no cached client: client and client_ws are None, and each client it held
\* has been closed.
C24_UndeployReleasesClients ==
    (helm.pc = "idle" /\ helm.last = "undeploy") =>
        /\ helm.client = "None"
        /\ helm.client_ws = "None"

\* C25: when deploy or undeploy has returned and the helm process it started
\* exited with a non-zero code, what it returned tells the failure: it is not
\* the None a successful invocation returns.
C25_HelmExitCodePropagated ==
    (helm.pc = "idle" /\ helm.last \in {"deploy", "undeploy"}
        /\ helm.proc.returncode # 0) =>
        helm.result # None

\* C26: while the stack keeps at least its base scope, `name in stack`
\* answers true exactly when some scope of any level holds the name, and
\* global_names() answers the set of the names of level 0 that no deeper
\* scope holds.
C26_NamesStackQueries ==
    Len(stack) >= 1 =>
        /\ upc = "contains" =>
               (ret.value <=> \E i \in 1..Len(stack) : call.value \in stack[i])
        /\ upc = "global_names" =>
               ret.value = { n \in stack[1] :
                               \A i \in 2..Len(stack) : n \notin stack[i] }

C26_Witness ==
    /\ upc = "global_names"
    /\ Len(stack) = 3
    /\ stack[1] = {"a", "b"}
    /\ stack[2] = {"a"}
    /\ stack[3] = {}
    /\ ret.value = {"b"}

\* the scalar leaves of a sequence of elements, from left to right
RECURSIVE Leaves(_)
Leaves(s) ==
    IF s = <<>> THEN <<>>
    ELSE (IF Head(s).kind = "List" THEN Leaves(Head(s).value) ELSE <<Head(s)>>)
         \o Leaves(Tail(s))

\* C27: flatten_list returns a flat list as it is; for a nested list it
\* returns the scalar leaves from left to right; and flattening what
\* flatten_list returned changes nothing.
C27_FlattenList ==
    /\ upc \in {"flattened", "again"} =>
           /\ call \in FlatLists => ret = call
           /\ ret = List(Leaves(call.value))
    /\ upc = "again" => ran = ret

C27_Witness ==
    /\ upc = "again"
    /\ call = List(<< List(<< [kind |-> "Scalar", value |-> 2],
                             [kind |-> "Scalar", value |-> 1] >>),
                      [kind |-> "Scalar", value |-> 2] >>)
    /\ ret = List(<< [kind |-> "Scalar", value |-> 2],
                     [kind |-> "Scalar", value |-> 1],
                     [kind |-> "Scalar", value |-> 2] >>)

\* the number of tokens of port p the combinator has taken and processed
Processed(p) == pos[p] - (IF rd[p].st = "done" THEN 1 ELSE 0)

\* the non-terminal tokens among the first n of port p
NonTerminalOf(p, n) ==
    SelectSeq(SubSeq(stream[p], 1, n), LAMBDA t : ~IsTermination(t))

\* C28: in a CartesianProduct, once the multiplier has processed a
\* non-terminal token T of port P (any token of P after its first), T is the
\* last element of token_lists[P], and token_lists[P] is the sequence of the
\* non-terminal tokens taken from P so far.
C28_TokenListsFollowPorts ==
    (kind = "cart" /\ InitializeCompleted) =>
        \A p \in PortSet :
            (Processed(p) >= 2 /\ ~IsTermination(stream[p][Processed(p)])) =>
                /\ token_lists[p] # <<>>
                /\ Last(token_lists[p]) = stream[p][Processed(p)]
                /\ token_lists[p] = NonTerminalOf(p, Processed(p))

\* every item put in the queue so far, in order (get() returns them flattened)
Enqueued == returned \o [i \in DOMAIN queue |-> _flatten_list(queue[i])]

\* C29: once a CartesianProduct has taken the TerminationToken of a port P,
\* in _initialize or in the multiplier, no read of P is outstanding any more;
\* the terminal firing is in the queue's history exactly when every port is
\* marked terminated, and it is the last item enqueued.
C29_NoReadAfterTermination ==
    kind = "cart" =>
        /\ \A p \in PortSet :
               Processed(p) = Len(stream[p]) => rd[p].st # "pending"
        /\ (\E i \in DOMAIN Enqueued : Enqueued[i] = TerminalFiring)
               <=> Len(terminated) = Len(ports)
        /\ \A i \in DOMAIN Enqueued :
               Enqueued[i] = TerminalFiring => i = Len(Enqueued)

\* the number of times a driver called command.execute
ExecuteCalls(log) ==
    Cardinality({ i \in DOMAIN log : log[i] = <<"execute", "call">> })

\* C30: every step of run either takes a non-terminal firing from the
\* combinator and spawns exactly one job driver for it, or spawns none; on the
\* terminal firing it spawns none and leaves the loop, and it never awaits
\* get() again; no driver calls command.execute more than once.
C30_OneDriverPerFiring ==
    [][ /\ IF input_ports # <<>> /\ firings_left' = firings_left - 1
           THEN /\ rpc = "await_get"
                /\ jobs' = Append(jobs, NewJob(Len(input_ports)))
           ELSE /\ Len(jobs') = Len(jobs) + (IF rpc = "start" /\ input_ports = <<>>
                                             THEN 1 ELSE 0)
                /\ firings_left' = firings_left
        /\ (rpc = "await_get" /\ rpc' \in {"await_gather", "done"}) =>
               /\ firings_left = 0
               /\ jobs' = jobs
        /\ rpc \in {"await_gather", "done", "failed", "cancelled"} => rpc' # "await_get"
        /\ \A j \in DOMAIN jobs' : ExecuteCalls(jobs'[j].log) <= 1
      ]_vars

C30_Witness ==
    /\ input_ports # <<>>
    /\ rpc = "done"
    /\ firings_left = 0
    /\ Len(jobs) = 2
    /\ \A j \in DOMAIN jobs : ExecuteCalls(jobs[j].log) = 1

\* C31: a job driver that completed has put exactly one token on each output
\* port; a token of a driver whose condition held carries the result of the
\* command, so it was put after execute returned, and a token of a skipped
\* driver carries null and SKIPPED; when run has completed, each output port
\* holds one token per driver and then the TerminationToken.
C31_OneTokenPerPortAfterCommand ==
    /\ \A j \in DOMAIN jobs : \A p \in OutPortSet :
           /\ Cardinality(TokensOf(j, p)) <= 1
           /\ jobs[j].st = "done" => Cardinality(TokensOf(j, p)) = 1
           /\ \A i \in TokensOf(j, p) :
                  IF jobs[j].cond
                  THEN /\ out[p][i].result = "result"
                       /\ out[p][i].status \in CommandStatuses
                       /\ jobs[j].st \in {"running", "done"} =>
                              \E n \in DOMAIN jobs[j].log :
                                  jobs[j].log[n] = <<"execute", "done">>
                  ELSE out[p][i] = OutToken(p, j, "null", "SKIPPED")
    /\ rpc = "done" =>
           \A p \in OutPortSet :
               /\ Len(out[p]) = Len(jobs) + 1
               /\ out[p][Len(out[p])] = OutTermination(p)
               /\ \A j \in DOMAIN jobs : Cardinality(TokensOf(j, p)) = 1

C31_Witness ==
    /\ rpc = "done"
    /\ Len(jobs) = 2
    /\ jobs[1].cond
    /\ ~jobs[2].cond
    /\ \A p \in OutPortSet : Len(out[p]) = 3

\* C32: in an environment where the load succeeds, no concurrent caller gets
\* from _get_configuration a Configuration whose load has not completed, and
\* between two undeploys at most one client of each kind is created.
C32_ConcurrentCallersSafe ==
    helm.loadable =>
        /\ \A c \in Callers : helm.callers[c].got # "new"
        /\ \A k \in ClientKinds : helm.created[k] <= 1

\* C37: in an environment where the load fails, every call that needs the
\* configuration fails, and while no load is in progress no configuration is
\* cached.
C37_FailedLoadNotCached ==
    ~helm.loadable =>
        /\ \A c \in Callers : helm.callers[c].got \in {"none", "raised"}
        /\ (\A c \in Callers : helm.callers[c].pc = "idle") =>
               helm.configuration = "None"

\* C33: every firing get() returns that run does not take for the terminal
\* one, and so passes to a job driver, holds no TerminationToken.
C33_NoTerminationInFiring ==
    \A i \in DOMAIN returned :
        ~check_termination(returned[i]) =>
            \A k \in DOMAIN returned[i] : ~IsTermination(returned[i][k])

\* C34: when run has failed with the error of a job driver, no driver of the
\* task is created or running and none of the tasks a driver gathered is
\* still pending, so nothing can put a token on an output port any more.
C34_NoDriverRunsAfterFailure ==
    rpc = "failed" =>
        \A j \in DOMAIN jobs :
            /\ jobs[j].st \notin {"created", "running"}
            /\ \A k \in SubRange : jobs[j].sub[k] # "pending"

\* C35: in a REMOTE_TO_REMOTE copy whose source is a location of this
\* connector and whose src equals dst, no writer is ever opened on the source
\* location: the location that streams the path does not receive it.
C35_NoWriterOnSource ==
    (args.kind = "REMOTE_TO_REMOTE" /\ args.source_connector = "self"
        /\ args.src = args.dst) =>
        WriterAt(args.source_location) = {}

\* C36: when copy has returned or failed, the caller's locations sequence is
\* the sequence it passed.
C36_LocationsUnchanged ==
    copy_result # NoResult => locations = args.locations

\* C38: after any sequence of add_scope, delete_scope, add_name and
\* delete_name the stack holds at least one scope, so that add_name and
\* global_names find a scope to work on.
C38_StackNeverEmpty == Len(stack) >= 1

\* C39: run on a task that has input ports and no input combinator raises
\* WorkflowExecutionException at once: no job driver is ever spawned and no
\* token, result or TerminationToken, is put on an output port.
C39_NoCombinatorRaises ==
    (input_ports # <<>> /\ input_combinator = "None") =>
        /\ rpc \in {"start", "raised"}
        /\ jobs = <<>>
        /\ \A p \in OutPortSet : out[p] = <<>>

C39_Witness ==
    /\ input_ports # <<>>
    /\ input_combinator = "None"
    /\ rpc = "raised"

=============================================================================
